---- MODULE Spec2Model ----
(***************************************************************************)
(* Model of the lus-laboris API core: the background job tracker of the    *)
(* vectorstore endpoints, the Phoenix session tracker, the RAG answering   *)
(* pipeline and the asynchronous evaluation worker.                        *)
(*                                                                         *)
(* Python dictionaries are functions with a dynamic DOMAIN.  An optional   *)
(* value (None or x) is the sequence <<>> or <<x>>.                        *)
(***************************************************************************)
EXTENDS Integers, Sequences, FiniteSets, TLC

\* ------------------------------------------------------------------ bounds
MaxClock == 1
MaxUuid == 3
MaxSubmit == 2
MaxAsk == 1
MaxSpanFailures == 1
MaxDocs == 1
MaxSessions == 2
MaxActions == 2
\* settings.api_rag_top_k, a deployment setting
TopK == 1
MaxTasks == 2
MaxLatency == 1
MaxOps == 3
MaxTopK == 2
MaxCandidates == 3
MaxScore == 2

\* ------------------------------------------------------- program constants
\* stop_after_attempt(3)
StopAfterAttempt == 3
\* queue.Queue(): maxsize 0, an unbounded queue
QueueMaxSize == 0

\* ------------------------------------------------------------ value spaces
None == <<>>
Some(x) == <<x>>

UUIDs == 1..MaxUuid
Operations == {"load_to_vectorstore_local", "load_to_vectorstore_gcp"}
\* str(e) of the exceptions the collaborators raise; str(ValueError()) is ""
Messages == {"File not found"}
\* str() of the queue.Full that put_nowait raises on a full queue
QueueFullMessage == ""
\* len(data["articulos"]) of the loaded file
ArticleCounts == {0, 1}
NoArticlesMessage == "No articles found in data"
Calls == 1..MaxAsk
\* questions are texts, sequences of characters
\* "q1" and "q2"
Questions == {<<113, 49>>, <<113, 50>>}
QuestionOrder(q) == IF q = <<113, 49>> THEN 1 ELSE 2
Providers == {"openai", "gemini"}
\* the texts the LLM provider returns, after .strip()
Completions == {"a1"}
\* _generate_response line 264
FallbackAnswer == "No relevant documents found to answer the question."
\* str() of the tenacity.RetryError raised when the attempts are used up
RetryErrorMessage == "RetryError"
\* CrossEncoder.predict scores: as many values as documents give every order
RerankScores == 1..MaxDocs
\* the "articulo" value of a stored point's payload: a text, or JSON null
Articulos == {Some("art"), None}
\* str() of the TypeError that len() of a null raises
TypeErrorMessage == "object of type 'NoneType' has no len()"
\* a call of answer_question that has not been made yet
IdleCall == [pc |-> "idle", question |-> <<>>, session_id |-> None,
             own_session |-> FALSE, start_time |-> None, documents |-> <<>>,
             reranking_applied |-> FALSE, attempts |-> 0,
             tracer_failures |-> 0, answer |-> None,
             processing_time |-> None, exc |-> None, result |-> None]

VARIABLES
    now,              \* time.time()
    issued,           \* values uuid.uuid4() has returned so far
    phoenix_enabled,  \* PhoenixMonitoringService.enabled
    session_tracker,  \* PhoenixMonitoringService.session_tracker
    background_jobs,  \* vectorstore.background_jobs
    responses,        \* the 202 responses returned so far, in order
    bg,               \* the scheduled background units, by job id
    eval_enabled,     \* EvaluationService.enabled
    reranker,         \* settings.api_use_reranking and RerankingService.model
    llm_provider,     \* RAGService.llm_provider
    evaluation_queue, \* EvaluationService.evaluation_queue
    worker,           \* the evaluation worker thread
    ask,              \* the calls of RAGService.answer_question
    put_log,          \* every task evaluation_queue.put() was given, in order
    eval_log,         \* every task _run_evaluation() was given, in order
    evaluations,      \* how each _run_evaluation() call ended, in order
    last_call         \* the latest call made from outside, with what it returned

jobVars == <<background_jobs, responses, bg>>
answerVars == <<eval_enabled, reranker, llm_provider, evaluation_queue, worker,
                ask, put_log, eval_log, evaluations>>
vars == <<now, issued, phoenix_enabled, session_tracker, jobVars, answerVars,
         last_call>>

\* ------------------------------------------------------------- dictionaries
DictSet(d, k, v) == [x \in (DOMAIN d) \cup {k} |-> IF x = k THEN v ELSE d[x]]
DictDel(d, k) == [x \in (DOMAIN d) \ {k} |-> d[x]]
EmptyDict == [x \in {} |-> None]

\* uuid4 returning a value it has returned before
uuid4Repeats(used) == {1}

\* uuid.uuid4(): the values a call can return, given those already returned:
\* a version-4 UUID is 122 random bits, so the model takes the values that
\* have not been returned before; the least of them stands for all
uuid4(used) == {u \in UUIDs \ used : \A v \in UUIDs \ used : u <= v}

\* ----------------------------------------------------------- SessionTracker
\* create_session that rebuilds the table with the new session only
create_sessionResetsTable(tracker, sid, user_id, t) ==
    DictSet(EmptyDict, sid,
            [session_id |-> sid, user_id |-> user_id, start_time |-> t,
             actions |-> <<>>, llm_calls |-> <<>>])

\* PhoenixMonitoringService.create_session
create_session(tracker, sid, user_id, t) ==
    DictSet(tracker, sid,
            [session_id |-> sid, user_id |-> user_id, start_time |-> t,
             actions |-> <<>>, llm_calls |-> <<>>])

\* PhoenixMonitoringService._calculate_session_metrics
_calculate_session_metrics(session_data) ==
    [total_actions |-> Len(session_data.actions),
     llm_calls_count |-> Len(session_data.llm_calls)]

\* end_session that answers an unknown id with a summary of zeros
end_sessionSummaryForUnknown(tracker, sid) ==
    IF sid \notin DOMAIN tracker
    THEN [tracker |-> tracker,
          summary |-> Some([session_id |-> sid,
                            final_metrics |-> [total_actions |-> 0,
                                               llm_calls_count |-> 0]])]
    ELSE [tracker |-> DictDel(tracker, sid),
          summary |-> Some([session_id |-> sid,
                            final_metrics |->
                                _calculate_session_metrics(tracker[sid])])]

\* end_session that clears the whole table
end_sessionClears(tracker, sid) ==
    IF sid \notin DOMAIN tracker
    THEN [tracker |-> tracker, summary |-> None]
    ELSE [tracker |-> EmptyDict,
          summary |-> Some([session_id |-> sid,
                            final_metrics |->
                                _calculate_session_metrics(tracker[sid])])]

\* end_session without line 168 (del self.session_tracker[session_id])
end_sessionKeeps(tracker, sid) ==
    IF sid \notin DOMAIN tracker
    THEN [tracker |-> tracker, summary |-> None]
    ELSE [tracker |-> tracker,
          summary |-> Some([session_id |-> sid,
                            final_metrics |->
                                _calculate_session_metrics(tracker[sid])])]

\* PhoenixMonitoringService.end_session: the table afterwards and the summary
\* returned ({} for an unknown id)
end_session(tracker, sid) ==
    IF sid \notin DOMAIN tracker
    THEN [tracker |-> tracker, summary |-> None]
    ELSE [tracker |-> DictDel(tracker, sid),
          summary |-> Some([session_id |-> sid,
                            final_metrics |->
                                _calculate_session_metrics(tracker[sid])])]

\* --------------------------------------------------------- Python values
\* Python values by their type, as isinstance sees them
PyStr(text) == [kind |-> "str", value |-> text]
PyInt(n) == [kind |-> "int", value |-> n]
PyFloat(x) == [kind |-> "float", value |-> x]
PyBool(b) == [kind |-> "bool", value |-> b]
PyNone == [kind |-> "NoneType", value |-> None]
PyList(items) == [kind |-> "list", value |-> items]
PyTuple(items) == [kind |-> "tuple", value |-> items]
\* a dict by its items: a function from the keys, which are Python values
\* (any hashable value can be a key), to the values
PyDictOf(items) == [kind |-> "dict", value |-> items]
\* a dict whose keys are all strings, written as the record of its items
PyDict(items) ==
    PyDictOf([key \in {PyStr(name) : name \in DOMAIN items} |->
                 items[key.value]])
PyOther(x) == [kind |-> "datetime", value |-> x]

\* isinstance(value, bool | str | bytes | int | float)
IsPrimitive(value) == value.kind \in {"bool", "str", "bytes", "int", "float"}

\* json.dumps(value) returns: value is a str, a number, a bool, None, a
\* sequence of such values, or a dict of such values whose keys are each a
\* str, a number, a bool or None; for anything else (a tuple as a key, a
\* datetime as a value) it raises TypeError
RECURSIVE JsonEncodable(_)
JsonEncodable(value) ==
    IF value.kind \in {"str", "int", "float", "bool", "NoneType"} THEN TRUE
    ELSE IF value.kind \in {"list", "tuple"}
    THEN \A i \in 1..Len(value.value) : JsonEncodable(value.value[i])
    ELSE IF value.kind = "dict"
    THEN \A key \in DOMAIN value.value :
            /\ key.kind \in {"str", "int", "float", "bool", "NoneType"}
            /\ JsonEncodable(value.value[key])
    ELSE FALSE

\* the TypeError of json.dumps, in place of the value it was to return
JsonTypeError == [kind |-> "TypeError", value |-> "not JSON serializable"]

\* json.dumps(value)
json_dumps(value) ==
    IF JsonEncodable(value) THEN PyStr(<<"json.dumps", value>>)
    ELSE JsonTypeError

\* _serialize_metadata, lines 181-202, for one value: primitives as they
\* are, a sequence of primitives as a list, any other sequence and a dict
\* as their JSON text, None as "null", anything else through str()
_serialize_value(value) ==
    IF IsPrimitive(value) THEN value
    ELSE IF value.kind \in {"list", "tuple"}
    THEN IF \A i \in 1..Len(value.value) : IsPrimitive(value.value[i])
         THEN PyList(value.value)
         ELSE json_dumps(value)
    ELSE IF value.kind = "dict" THEN json_dumps(value)
    ELSE IF value.kind = "NoneType" THEN PyStr("null")
    ELSE PyStr(<<"str", value>>)

\* PhoenixMonitoringService._serialize_metadata: the serialized dict, or the
\* TypeError that json.dumps raised for one of the values
_serialize_metadata(metadata) ==
    IF \E key \in DOMAIN metadata : _serialize_value(metadata[key]).kind = "TypeError"
    THEN [exc |-> Some("TypeError"), value |-> EmptyDict]
    ELSE [exc |-> None,
          value |-> [key \in DOMAIN metadata |-> _serialize_value(metadata[key])]]

\* metadata or {}
OrEmptyDict(metadata) == IF metadata = None THEN EmptyDict ELSE metadata[1]

\* --------------------------------------- attributes handed to the sink
\* PhoenixMonitoringService._get_session_attributes
_get_session_attributes(tracker, sid) ==
    IF sid \notin DOMAIN tracker THEN EmptyDict
    ELSE [key \in {"session.user_id", "session.start_time",
                   "session.actions_count", "session.llm_calls_count"} |->
            CASE key = "session.user_id" ->
                   IF tracker[sid].user_id = None THEN PyNone
                   ELSE tracker[sid].user_id[1]
              [] key = "session.start_time" ->
                   PyStr(<<"isoformat", tracker[sid].start_time>>)
              [] key = "session.actions_count" ->
                   PyInt(Len(tracker[sid].actions))
              [] key = "session.llm_calls_count" ->
                   PyInt(Len(tracker[sid].llm_calls))]

\* {**base, **over}: the keys of both, over's value where both have one
DictMerge(base, over) ==
    [key \in (DOMAIN base) \cup (DOMAIN over) |->
        IF key \in DOMAIN over THEN over[key] ELSE base[key]]

\* the attributes each record operation writes itself, from the arguments
\* Track calls it with: the operation_type of track_vectorstore_operation is
\* the one its entry holds (lines 385 and 399)
OwnAttributes(kind, sid) ==
    DictMerge(
        [key \in {"service.name", "session.id"} |->
            IF key = "service.name" THEN PyStr("lus-laboris-api")
            ELSE PyStr(<<"str", sid>>)],
        CASE kind = "llm_call" ->
               [key \in {"llm.provider", "llm.prompt_length"} |->
                   IF key = "llm.provider" THEN PyStr("openai") ELSE PyInt(1)]
          [] kind = "vectorstore_search" ->
               [key \in {"vectorstore.results_count",
                         "vectorstore.search_time"} |->
                   IF key = "vectorstore.results_count" THEN PyInt(1)
                   ELSE PyFloat(0)]
          [] kind = "embedding_generation" ->
               [key \in {"embedding.model", "embedding.generation_time"} |->
                   IF key = "embedding.model" THEN PyStr("m")
                   ELSE PyFloat(0)]
          [] kind = "reranking" ->
               [key \in {"reranking.documents_count", "reranking.time"} |->
                   IF key = "reranking.documents_count" THEN PyInt(1)
                   ELSE PyFloat(0)]
          [] kind = "vectorstore_operation" ->
               [key \in {"vectorstore.operation", "vectorstore.collection"} |->
                   IF key = "vectorstore.operation"
                   THEN PyStr("create_collection") ELSE PyStr("c")]
          [] kind = "authentication" ->
               [key \in {"auth.success", "auth.user_id"} |->
                   IF key = "auth.success" THEN PyBool(TRUE)
                   ELSE PyStr("admin")])

\* the attributes= argument of tracer.start_as_current_span in the record
\* operation named kind: track_vectorstore_operation serializes the session's
\* attributes and its metadata (lines 378-381), the other operations spread
\* the session's attributes as they are (lines 231, 297, 342, 438, 481).
\* None: _serialize_metadata raised and no span is opened.
SpanAttributes(kind, tracker, sid, metadata) ==
    IF kind = "vectorstore_operation"
    THEN LET own == _serialize_metadata(OrEmptyDict(metadata))
             session == _serialize_metadata(
                            _get_session_attributes(tracker, sid))
         IN  IF own.exc # None \/ session.exc # None THEN None
             ELSE Some(DictMerge(DictMerge(OwnAttributes(kind, sid),
                                           session.value),
                                 own.value))
    ELSE Some(DictMerge(OwnAttributes(kind, sid),
                        _get_session_attributes(tracker, sid)))

\* track_vectorstore_operation without its try/except: the exception of
\* _serialize_metadata or of the tracer leaves the call
track_vectorstore_operationUnguarded(tracker, enabled, sink_ok, sid, operation_type, metadata) ==
    IF ~enabled
    THEN [tracker |-> tracker, raised |-> FALSE]
    ELSE IF SpanAttributes("vectorstore_operation", tracker, sid,
                           metadata) = None \/ ~sink_ok
    THEN [tracker |-> tracker, raised |-> TRUE]
    ELSE IF sid \in DOMAIN tracker
    THEN [tracker |-> [tracker EXCEPT ![sid].actions =
                          Append(@, [type |-> "vectorstore_operation",
                                     operation |-> operation_type,
                                     metadata |-> OrEmptyDict(metadata)])],
          raised |-> FALSE]
    ELSE [tracker |-> tracker, raised |-> FALSE]

\* PhoenixMonitoringService.track_vectorstore_operation: the table afterwards
\* and whether an exception left the call.  metadata is a dict of Python
\* values or None.  The metadata (line 378) and the session's attributes
\* (line 381) are serialized inside the try, before the span: the TypeError
\* of either, like the tracer raising at the span (sink_ok FALSE), is caught
\* at line 413, and nothing is appended.
track_vectorstore_operation(tracker, enabled, sink_ok, sid, operation_type, metadata) ==
    IF ~enabled
    THEN [tracker |-> tracker, raised |-> FALSE]
    ELSE IF SpanAttributes("vectorstore_operation", tracker, sid,
                           metadata) = None \/ ~sink_ok
    THEN [tracker |-> tracker, raised |-> FALSE]
    ELSE IF sid \in DOMAIN tracker
    THEN [tracker |-> [tracker EXCEPT ![sid].actions =
                          Append(@, [type |-> "vectorstore_operation",
                                     operation |-> operation_type,
                                     metadata |-> OrEmptyDict(metadata)])],
          raised |-> FALSE]
    ELSE [tracker |-> tracker, raised |-> FALSE]

\* --------------------------------------------------------------- JobTracker
\* the claims of a verified token, which require_vectorstore_write returns
\* as it received them (auth/security.py lines 105-107) and the handlers
\* take as current_user: with a subject, with a user name as well, with
\* neither
Users ==
    {PyDict([sub |-> PyStr("admin"), email |-> PyStr("a@b")]),
     PyDict([username |-> PyStr("ana"), sub |-> PyStr("admin")]),
     PyDict([email |-> PyStr("a@b")])}

\* bool(value)
IsTrue(value) ==
    CASE value.kind = "NoneType" -> FALSE
      [] value.kind = "bool" -> value.value
      [] value.kind \in {"int", "float"} -> value.value # 0
      [] value.kind = "str" -> value.value # ""
      [] value.kind \in {"list", "tuple"} -> value.value # <<>>
      [] value.kind = "dict" -> DOMAIN value.value # {}
      [] OTHER -> TRUE

\* a_dict.get(key)
DictGet(a_dict, key) ==
    IF PyStr(key) \in DOMAIN a_dict.value THEN a_dict.value[PyStr(key)]
    ELSE PyNone

\* list_all_jobs lines 693-696: the user of a record as a poller sees it,
\* job_user.get("username") or job_user.get("sub") for a dict of claims and
\* the value itself for anything else
JobUser(user) ==
    IF user.kind # "dict" THEN user
    ELSE IF IsTrue(DictGet(user, "username")) THEN DictGet(user, "username")
    ELSE DictGet(user, "sub")

\* a record stored as already started
NewJobStarted(job_id, operation, user, t) ==
    [job_id |-> job_id, status |-> "processing", operation |-> operation,
     user |-> user, created_at |-> Some(t), started_at |-> Some(t),
     completed_at |-> None, result |-> None, error |-> None,
     session_id |-> None]

\* the record load_to_vectorstore_local / _gcp stores; the keys "result",
\* "error" and "session_id" are absent at first and read with .get()
NewJob(job_id, operation, user, t) ==
    [job_id |-> job_id, status |-> "queued", operation |-> operation,
     user |-> user, created_at |-> Some(t), started_at |-> None,
     completed_at |-> None, result |-> None, error |-> None,
     session_id |-> None]

\* the start of the unit without line 48 (status = "processing")
JobStartedStaysQueued(rec, t) ==
    [rec EXCEPT !.started_at = Some(t)]

\* _load_to_vectorstore_background lines 48-49
JobStarted(rec, t) ==
    [rec EXCEPT !.status = "processing", !.started_at = Some(t)]

\* completion without lines 114-118 (the result payload)
JobCompletedNoResult(rec, t, result) ==
    [rec EXCEPT !.status = "completed", !.completed_at = Some(t)]

\* _load_to_vectorstore_background lines 112-118
JobCompleted(rec, t, result) ==
    [rec EXCEPT !.status = "completed", !.completed_at = Some(t),
                !.result = Some(result)]

\* a failure that leaves the completion time unset
JobFailedNoTime(rec, t, message) ==
    [rec EXCEPT !.status = "failed", !.error = Some(message)]

\* _load_to_vectorstore_background lines 135-137
JobFailed(rec, t, message) ==
    [rec EXCEPT !.status = "failed", !.completed_at = Some(t),
                !.error = Some(message)]

\* list_all_jobs lines 692-708: what a poller sees of one record
JobView(rec) ==
    [job_id |-> rec.job_id, status |-> rec.status,
     operation |-> rec.operation, user |-> JobUser(rec.user),
     created_at |-> rec.created_at, started_at |-> rec.started_at,
     completed_at |-> rec.completed_at, error |-> rec.error,
     result |-> rec.result]

list_all_jobs(jobs) == [j \in DOMAIN jobs |-> JobView(jobs[j])]

\* ----------------------------------------------------------------- actions
\* time.time(): a reading is never below an earlier one
time_time(last) == last..MaxClock

\* load_to_vectorstore_local / load_to_vectorstore_gcp: the handler has no
\* await, so the event loop runs it as one step: allocate the id, store the
\* record, add the background task, return the 202 response
Submit(op, user) ==
    /\ now' \in time_time(now)
    /\ Len(responses) < MaxSubmit
    /\ \E id \in uuid4(issued) :
        /\ issued' = issued \cup {id}
        /\ background_jobs' = DictSet(background_jobs, id,
                                      NewJob(id, op, user, now'))
        /\ bg' = DictSet(bg, id, [pc |-> "scheduled", session_id |-> None,
                                  start_time |-> None, articles |-> 0,
                                  exc |-> None, escaped |-> FALSE,
                                  operation |-> op, user |-> user])
        /\ responses' = Append(responses, [job_id |-> id, operation |-> op])
    /\ UNCHANGED <<phoenix_enabled, session_tracker, answerVars, last_call>>

\* operation_type of the track after the work, lines 102 and 208
SuccessOperation(operation) ==
    IF operation = "load_to_vectorstore_local"
    THEN "load_to_vectorstore_local_success"
    ELSE "load_to_vectorstore_gcp_success"

\* operation_type of the track of the except clause, lines 129 and 235
ErrorOperation(operation) ==
    IF operation = "load_to_vectorstore_local"
    THEN "load_to_vectorstore_local_error"
    ELSE "load_to_vectorstore_gcp_error"

\* background unit, lines 46-70: processing, session, "operation start" track
\* (its metadata, built from the request and the token, is left out).
\* The clock is read three times: started_at (line 49), the local start_time
\* (line 51) and the start_time of the session (create_session, line 140).
BgStart(j) ==
    /\ j \in DOMAIN bg
    /\ bg[j].pc = "scheduled"
    /\ \E started_at \in time_time(now) :
       \E start_time \in time_time(started_at) :
       \E session_start \in time_time(start_time) :
       \E sid \in uuid4(issued), sink_ok \in BOOLEAN :
        LET created == create_session(session_tracker, sid, Some(bg[j].user),
                                      session_start)
            tracked == track_vectorstore_operation(created, phoenix_enabled,
                           sink_ok, sid, bg[j].operation, None)
        IN  /\ now' = session_start
            /\ issued' = issued \cup {sid}
            /\ background_jobs' =
                   [background_jobs EXCEPT ![j] =
                       [JobStarted(@, started_at) EXCEPT
                           !.session_id = Some(sid)]]
            /\ session_tracker' = tracked.tracker
            /\ bg' = [bg EXCEPT ![j] =
                        IF tracked.raised
                        THEN [@ EXCEPT !.pc = "except", !.session_id = Some(sid),
                                       !.start_time = Some(start_time),
                                       !.exc = Some("track")]
                        ELSE [@ EXCEPT !.pc = "work", !.session_id = Some(sid),
                                       !.start_time = Some(start_time)]]
    /\ UNCHANGED <<phoenix_enabled, responses, answerVars, last_call>>

\* a step of the try block raising: control moves to the except clause
Raise(j, message) ==
    bg' = [bg EXCEPT ![j].pc = "except", ![j].exc = Some(message)]

\* lines 72-95 / 178-201: load the data, embed it, create the collection and
\* insert the documents.  The four calls touch no shared state of the model,
\* so they are one step; each of them can raise.
BgWork(j) ==
    /\ j \in DOMAIN bg
    /\ bg[j].pc = "work"
    /\ \/ \E m \in Messages : Raise(j, m)             \* _load_*_data_new
       \/ Raise(j, NoArticlesMessage)                  \* no articles in the data
       \/ \E m \in Messages : Raise(j, m)             \* generate_embeddings
       \/ \E m \in Messages : Raise(j, m)             \* create_collection
       \/ \E m \in Messages : Raise(j, m)             \* insert_documents
       \/ \E n \in ArticleCounts \ {0} :
            bg' = [bg EXCEPT ![j].pc = "success", ![j].articles = n]
    /\ UNCHANGED <<now, issued, phoenix_enabled, session_tracker,
                   background_jobs, responses, answerVars, last_call>>

\* lines 97-120: "success" track, completed, completed_at, result.  The
\* clock is read for processing_time (line 97) and, after the track, for
\* completed_at (line 113).
BgSuccess(j) ==
    /\ j \in DOMAIN bg
    /\ bg[j].pc = "success"
    /\ \E processing_end \in time_time(now), sink_ok \in BOOLEAN :
        LET sid == bg[j].session_id[1]
            result == [documents_processed |-> bg[j].articles,
                       documents_inserted |-> bg[j].articles,
                       processing_time_seconds |->
                           processing_end - bg[j].start_time[1]]
            tracked == track_vectorstore_operation(session_tracker,
                           phoenix_enabled, sink_ok, sid,
                           SuccessOperation(bg[j].operation),
                           Some([documents_processed |->
                                     PyInt(result.documents_processed),
                                 documents_inserted |->
                                     PyInt(result.documents_inserted),
                                 processing_time_seconds |->
                                     PyFloat(result.processing_time_seconds)]))
        IN  /\ session_tracker' = tracked.tracker
            /\ IF tracked.raised
               THEN /\ now' = processing_end
                    /\ bg' = [bg EXCEPT ![j].pc = "except",
                                        ![j].exc = Some("track")]
                    /\ UNCHANGED background_jobs
               ELSE /\ \E completed_at \in time_time(processing_end) :
                         /\ now' = completed_at
                         /\ background_jobs' =
                               [background_jobs EXCEPT ![j] =
                                   JobCompleted(@, completed_at, result)]
                    /\ bg' = [bg EXCEPT ![j].pc = "finally"]
    /\ UNCHANGED <<issued, phoenix_enabled, responses, answerVars, last_call>>

\* lines 122-137: except Exception: "error" track, failed, completed_at, error
BgExcept(j) ==
    /\ now' \in time_time(now)
    /\ j \in DOMAIN bg
    /\ bg[j].pc = "except"
    /\ \E sink_ok \in BOOLEAN :
        LET tracked ==
              IF bg[j].session_id # None
              THEN track_vectorstore_operation(session_tracker,
                       phoenix_enabled, sink_ok, bg[j].session_id[1],
                       ErrorOperation(bg[j].operation),
                       Some([error |-> PyStr(bg[j].exc[1])]))
              ELSE [tracker |-> session_tracker, raised |-> FALSE]
        IN  /\ session_tracker' = tracked.tracker
            /\ IF tracked.raised
               THEN /\ bg' = [bg EXCEPT ![j].pc = "finally",
                                        ![j].escaped = TRUE]
                    /\ UNCHANGED background_jobs
               ELSE /\ background_jobs' =
                         [background_jobs EXCEPT ![j] =
                             JobFailed(@, now', bg[j].exc[1])]
                    /\ bg' = [bg EXCEPT ![j].pc = "finally"]
    /\ UNCHANGED <<issued, phoenix_enabled, responses, answerVars, last_call>>

\* lines 139-141: finally: end_session
BgFinally(j) ==
    /\ j \in DOMAIN bg
    /\ bg[j].pc = "finally"
    /\ session_tracker' =
           IF bg[j].session_id # None
           THEN end_session(session_tracker, bg[j].session_id[1]).tracker
           ELSE session_tracker
    /\ bg' = [bg EXCEPT ![j].pc = "done"]
    /\ UNCHANGED <<now, issued, phoenix_enabled, background_jobs,
                   responses, answerVars, last_call>>

\* ------------------------------------------------- tracker, record operations
\* a record operation that puts its entry at the head of the list
TrackActionPrepends(tracker, enabled, sink_ok, sid, entry) ==
    IF enabled /\ sink_ok /\ sid \in DOMAIN tracker
    THEN [tracker EXCEPT ![sid].actions = <<entry>> \o @]
    ELSE tracker

\* a record operation that starts a session entry for an id it does not find
TrackActionStartsEntry(tracker, enabled, sink_ok, sid, entry) ==
    IF enabled /\ sink_ok /\ sid \in DOMAIN tracker
    THEN [tracker EXCEPT ![sid].actions = Append(@, entry)]
    ELSE IF enabled /\ sink_ok
    THEN DictSet(tracker, sid, [session_id |-> sid, actions |-> <<entry>>,
                                llm_calls |-> <<>>])
    ELSE tracker

\* the body shared by the track_* operations: nothing when monitoring is
\* disabled or the tracer raises (caught), an append when the session is live
TrackAction(tracker, enabled, sink_ok, sid, entry) ==
    IF enabled /\ sink_ok /\ sid \in DOMAIN tracker
    THEN [tracker EXCEPT ![sid].actions = Append(@, entry)]
    ELSE tracker

\* PhoenixMonitoringService.track_embedding_generation
track_embedding_generation(tracker, enabled, sink_ok, sid, text, generation_time) ==
    TrackAction(tracker, enabled, sink_ok, sid,
                [type |-> "embedding_generation", text |-> text,
                 generation_time |-> generation_time])

\* PhoenixMonitoringService.track_vectorstore_search
track_vectorstore_search(tracker, enabled, sink_ok, sid, query, results_count, search_time) ==
    TrackAction(tracker, enabled, sink_ok, sid,
                [type |-> "vectorstore_search", query |-> query,
                 results_count |-> results_count,
                 search_time |-> search_time])

\* PhoenixMonitoringService.track_reranking
track_reranking(tracker, enabled, sink_ok, sid, query, documents_count, reranking_time) ==
    TrackAction(tracker, enabled, sink_ok, sid,
                [type |-> "reranking", query |-> query,
                 documents_count |-> documents_count,
                 reranking_time |-> reranking_time])

\* a track_llm_call that records the call in llm_calls alone
track_llm_callSkipsActions(tracker, enabled, sink_ok, sid, provider, model, prompt, response) ==
    IF enabled /\ sink_ok /\ sid \in DOMAIN tracker
    THEN [tracker EXCEPT
            ![sid].llm_calls = Append(@, [provider |-> provider,
                                          model |-> model,
                                          prompt |-> prompt,
                                          response |-> response])]
    ELSE tracker

\* PhoenixMonitoringService.track_authentication: the entry holds the
\* metadata argument as it was passed, None included (line 492)
track_authentication(tracker, enabled, sink_ok, sid, user_id, success, metadata) ==
    TrackAction(tracker, enabled, sink_ok, sid,
                [type |-> "authentication", user_id |-> user_id,
                 success |-> success, metadata |-> metadata])

\* PhoenixMonitoringService.track_llm_call
track_llm_call(tracker, enabled, sink_ok, sid, provider, model, prompt, response) ==
    IF enabled /\ sink_ok /\ sid \in DOMAIN tracker
    THEN [tracker EXCEPT
            ![sid].llm_calls = Append(@, [provider |-> provider,
                                          model |-> model,
                                          prompt |-> prompt,
                                          response |-> response]),
            ![sid].actions = Append(@, [type |-> "llm_call",
                                        provider |-> provider,
                                        model |-> model])]
    ELSE tracker

\* ---------------------------------------------------------------- Retriever
Min(a, b) == IF a <= b THEN a ELSE b

\* _retrieve_documents line 129
search_limit(rr) == IF rr # "off" THEN TopK * 2 ELSE TopK

\* QdrantService.search_documents: the points found, best first; articulos
\* lists the "articulo" value of each point's payload
search_documents(articulos) ==
    [i \in 1..Len(articulos) |->
        [id |-> i, score |-> 10 - i, rerank_score |-> None,
         articulo |-> articulos[i]]]

\* what a search may return under a limit
SearchOutcomes(limit) ==
    UNION {[1..n -> Articulos] : n \in 0..Min(limit, MaxDocs)}

\* sorted(documents, key=rerank_score, reverse=True): stable, so documents
\* with equal scores keep their order
RECURSIVE InsertDesc(_, _)
InsertDesc(d, sorted) ==
    IF sorted = <<>> THEN <<d>>
    ELSE IF Head(sorted).rerank_score[1] >= d.rerank_score[1]
         THEN <<Head(sorted)>> \o InsertDesc(d, Tail(sorted))
         ELSE <<d>> \o sorted

RECURSIVE SortDesc(_)
SortDesc(docs) ==
    IF docs = <<>> THEN <<>>
    ELSE InsertDesc(docs[Len(docs)], SortDesc(SubSeq(docs, 1, Len(docs) - 1)))

\* a reranker that forgets the top_k cut
rerank_documentsNoTopK(documents, top_k, rr, scores) ==
    IF rr # "on" \/ documents = <<>>
    THEN [documents |-> documents, reranking_applied |-> FALSE,
          error |-> None]
    ELSE IF scores = None
    THEN [documents |-> documents, reranking_applied |-> FALSE,
          error |-> Some("predict failed")]
    ELSE [documents |-> SortDesc([i \in 1..Len(documents) |->
                          [documents[i] EXCEPT
                              !.rerank_score = Some(scores[1][i])]]),
          reranking_applied |-> TRUE, error |-> None]

\* a reranker that cuts the candidates to top_k when predict fails
rerank_documentsCutsOnError(documents, top_k, rr, scores) ==
    IF rr # "on" \/ documents = <<>>
    THEN [documents |-> documents, reranking_applied |-> FALSE,
          error |-> None]
    ELSE IF scores = None
    THEN [documents |-> SubSeq(documents, 1, Min(top_k, Len(documents))),
          reranking_applied |-> FALSE, error |-> Some("predict failed")]
    ELSE [documents |-> SubSeq(SortDesc([i \in 1..Len(documents) |->
                          [documents[i] EXCEPT
                              !.rerank_score = Some(scores[1][i])]]),
                               1, Min(top_k, Len(documents))),
          reranking_applied |-> TRUE, error |-> None]

\* RerankingService.rerank_documents; scores = None is model.predict raising
rerank_documents(documents, top_k, rr, scores) ==
    IF rr # "on" \/ documents = <<>>
    THEN [documents |-> documents, reranking_applied |-> FALSE,
          error |-> None]
    ELSE IF scores = None
    THEN [documents |-> documents, reranking_applied |-> FALSE,
          error |-> Some("predict failed")]
    ELSE LET scored == [i \in 1..Len(documents) |->
                          [documents[i] EXCEPT
                              !.rerank_score = Some(scores[1][i])]]
         IN  [documents |-> SubSeq(SortDesc(scored), 1,
                                   Min(top_k, Len(documents))),
              reranking_applied |-> TRUE, error |-> None]

\* what model.predict may do for n documents
ScoreOutcomes(n, rr) ==
    IF rr = "on" /\ n > 0
    THEN {None} \cup {Some(f) : f \in [1..n -> RerankScores]}
    ELSE {None}

\* the stages of a retrieval and the time each took, as the differences of
\* time.time() that _retrieve_documents measures: one stage at a time is
\* the slow one
Stages == {"embedding", "search", "reranking"}
StageTimes ==
    {[stage \in Stages |-> IF stage = slow THEN time ELSE 0] :
        slow \in Stages, time \in 0..MaxLatency}

\* whether the tracer opens the span of each stage or raises there (the
\* track_* operation catches it and records nothing)
SpanOutcomes == [Stages -> BOOLEAN]

\* a retrieval that never returns more than top_k documents
_retrieve_documentsCutsToTopK(tracker, enabled, sid, query, top_k, rr, embed_exc, search_exc, found, scores, times, span_ok) ==
    LET t1 == track_embedding_generation(tracker, enabled, span_ok.embedding, sid, query,
                                         times.embedding)
        t2 == track_vectorstore_search(t1, enabled, span_ok.search, sid, query,
                                       Len(found), times.search)
        res == rerank_documents(found, top_k, rr, scores)
        t3 == track_reranking(t2, enabled, span_ok.reranking, sid, query, Len(found),
                              times.reranking)
    IN  IF embed_exc # None
        THEN [tracker |-> tracker, documents |-> <<>>,
              reranking_applied |-> FALSE, error |-> None,
              exc |-> embed_exc]
        ELSE IF search_exc # None
        THEN [tracker |-> t1, documents |-> <<>>,
              reranking_applied |-> FALSE, error |-> None,
              exc |-> search_exc]
        ELSE IF rr # "off" /\ found # <<>>
        THEN [tracker |-> t3,
              documents |-> SubSeq(res.documents, 1,
                                   Min(top_k, Len(res.documents))),
              reranking_applied |-> res.reranking_applied,
              error |-> res.error, exc |-> None]
        ELSE [tracker |-> t2, documents |-> found,
              reranking_applied |-> FALSE, error |-> None, exc |-> None]

\* RAGService._retrieve_documents: embed the query, search, rerank when
\* reranking is configured and something was found, tracking each stage;
\* exc is the exception it re-raises, if any
_retrieve_documents(tracker, enabled, sid, query, top_k, rr, embed_exc, search_exc, found, scores, times, span_ok) ==
    LET t1 == track_embedding_generation(tracker, enabled, span_ok.embedding, sid, query,
                                         times.embedding)
        t2 == track_vectorstore_search(t1, enabled, span_ok.search, sid, query,
                                       Len(found), times.search)
        res == rerank_documents(found, top_k, rr, scores)
        t3 == track_reranking(t2, enabled, span_ok.reranking, sid, query, Len(found),
                              times.reranking)
    IN  IF embed_exc # None
        THEN [tracker |-> tracker, documents |-> <<>>,
              reranking_applied |-> FALSE, error |-> None,
              exc |-> embed_exc]
        ELSE IF search_exc # None
        THEN [tracker |-> t1, documents |-> <<>>,
              reranking_applied |-> FALSE, error |-> None,
              exc |-> search_exc]
        ELSE IF rr # "off" /\ found # <<>>
        THEN [tracker |-> t3, documents |-> res.documents,
              reranking_applied |-> res.reranking_applied,
              error |-> res.error, exc |-> None]
        ELSE [tracker |-> t2, documents |-> found,
              reranking_applied |-> FALSE, error |-> None, exc |-> None]

\* ----------------------------------------------------------- AnswerPipeline
\* RAGService._build_context: one entry per document; payload.get returns a
\* null "articulo" as it is, and the f-string prints it as "None"
_build_context(documents) ==
    IF documents = <<>> THEN <<"No se encontraron documentos relevantes.">>
    ELSE [i \in 1..Len(documents) |->
            IF documents[i].articulo = None THEN "None"
            ELSE documents[i].articulo[1]]

\* settings.api_llm_model, the model name the service is configured with
api_llm_model == "llm-model"

\* RAGService._create_prompt: the template with the context and the question
\* in their places
_create_prompt(query, context) ==
    <<"CONTEXTO:", context, "PREGUNTA:", query, "INSTRUCCIONES:">>

\* answer_question lines 343-357: the preview of a document in the response;
\* len() of a null "articulo" raises TypeError
PreviewRaises(doc) == doc.articulo = None

\* the task enqueue_evaluation builds (lines 98-106)
EvalTask(sid, question, context, answer, documents) ==
    [session_id |-> sid, question |-> question, context |-> context,
     answer |-> answer, documents |-> documents]

\* a queue that hands out the newest item
QueueGetLast(queue) ==
    [item |-> queue[Len(queue)], queue |-> SubSeq(queue, 1, Len(queue) - 1)]

\* a bounded queue of one element
QueueFullAtOne(queue) == Len(queue) >= 1

\* queue.Queue.full: a queue made with maxsize <= 0 is never full
QueueFull(queue) == QueueMaxSize > 0 /\ Len(queue) >= QueueMaxSize

\* an enqueue_evaluation on a queue of one place that uses put_nowait: on a
\* full queue it raises queue.Full
enqueue_evaluationBounded(queue, enabled, task) ==
    IF ~enabled THEN [queue |-> queue, exc |-> None]
    ELSE IF QueueFullAtOne(queue)
    THEN [queue |-> queue, exc |-> Some(QueueFullMessage)]
    ELSE [queue |-> Append(queue, Some(task)), exc |-> None]

\* EvaluationService.enqueue_evaluation: the queue afterwards and the
\* exception that leaves the call; an element of the queue is Some(task), or
\* None for the shutdown signal.  The queue is queue.Queue() (line 31), which
\* has no bound, so put appends and returns, and no exception leaves the
\* call.
enqueue_evaluation(queue, enabled, task) ==
    IF ~enabled THEN [queue |-> queue, exc |-> None]
    ELSE [queue |-> Append(queue, Some(task)), exc |-> None]

\* a failure result without the "error" key
FailureResultNoError(question, message, elapsed, sid) ==
    [success |-> FALSE, question |-> question, answer |-> None,
     error |-> None, processing_time_seconds |-> elapsed,
     documents_retrieved |-> None, reranking_applied |-> None,
     session_id |-> sid]

\* answer_question lines 372-378; keys the dictionary lacks read as None
FailureResult(question, message, elapsed, sid) ==
    [success |-> FALSE, question |-> question, answer |-> None,
     error |-> Some(message), processing_time_seconds |-> elapsed,
     documents_retrieved |-> None, reranking_applied |-> None,
     session_id |-> sid]

\* answer_question lines 334-360
SuccessResult(question, answer, elapsed, documents, applied, sid) ==
    [success |-> TRUE, question |-> question, answer |-> Some(answer),
     error |-> None, processing_time_seconds |-> elapsed,
     documents_retrieved |-> Some(Len(documents)),
     reranking_applied |-> Some(applied), session_id |-> sid]

\* a call that has returned: what it was called with, what it retrieved and
\* generated, the exception its except block caught, and what it returned
Returned(call, answer, exc, result) ==
    [IdleCall EXCEPT !.pc = "returned", !.question = call.question,
                     !.session_id = call.session_id,
                     !.own_session = call.own_session,
                     !.documents = call.documents,
                     !.answer = answer, !.exc = exc,
                     !.result = Some(result)]

\* answer_question lines 368-378: an exception raised inside the try block
\* becomes the failure result the call returns; t is the reading of
\* time.time() in the except block
Fail(call, message, t) ==
    Returned(call, call.answer, Some(message),
             FailureResult(call.question, message, t - call.start_time[1],
                           call.session_id[1]))

\* questions are told apart only by equality, so a call asks a question
\* already asked or the least one not asked yet
NextQuestions(asked) ==
    asked \cup {q \in Questions \ asked :
                   \A p \in Questions \ asked : QuestionOrder(q) <= QuestionOrder(p)}

\* a call or a task has been given session sid
SessionInUse(sid) ==
    \/ \E c \in Calls : ask[c].session_id = Some(sid)
    \/ \E i \in DOMAIN put_log : put_log[i].session_id = sid

\* the session ids a caller passes on: the id of a live session that no
\* call or task has been given yet, or an id that names no live session (the
\* least unused id stands for it).  Two calls are not given the same session.
PassedIds ==
    {sid \in DOMAIN session_tracker : ~SessionInUse(sid)} \cup uuid4(issued)

\* the event loop's thread is inside another call: answer_question awaits
\* nothing but the OpenAI request, so from line 298 to the LLM call, in the
\* blocking Gemini call (rag_service.py line 280, time.sleep between its
\* attempts) and from the answer to the return no other coroutine runs; the
\* worker thread runs on
LoopBlocked(r) ==
    \E c \in Calls \ {r} :
        \/ ask[c].pc \in {"embedding", "search", "reranking", "answered",
                        "enqueued"}
        \/ ask[c].pc = "llm" /\ llm_provider = "gemini"

\* what the tracer does when a track of the call opens its span: it opens
\* it, or raises (the track catches that and records nothing).  The tracer is
\* used only with monitoring enabled, and raises at most MaxSpanFailures
\* times in a call.
SinkOutcomes(call) ==
    IF phoenix_enabled /\ call.tracer_failures < MaxSpanFailures
    THEN BOOLEAN ELSE {TRUE}

\* PhoenixMonitoringService.create_session called by a caller that is going
\* to pass the session on, as ask_question does at rag.py line 59; one such
\* session at a time waits to be passed
HandlerCreateSession ==
    /\ ~LoopBlocked(0)
    /\ \E c \in Calls : ask[c].pc = "idle"
    /\ \A sid \in DOMAIN session_tracker : SessionInUse(sid)
    /\ now' \in time_time(now)
    /\ \E sid \in uuid4(issued) :
        /\ issued' = issued \cup {sid}
        /\ session_tracker' = create_session(session_tracker, sid, None, now')
    /\ UNCHANGED <<phoenix_enabled, jobVars, last_call, answerVars>>

\* answer_question lines 298-302: the start time is read, and a call without
\* a session id creates its session (whose start_time is a later reading);
\* a session id that is passed is used as it is, live or not.  Calls are
\* numbered in the order in which they start.
AskStart(r, q, session_id) ==
    /\ ask[r].pc = "idle"
    /\ ~LoopBlocked(r)
    /\ \A c \in Calls : c < r => ask[c].pc # "idle"
    /\ q \in NextQuestions(({ask[c].question : c \in Calls} \ {<<>>})
                           \cup {put_log[i].question : i \in DOMAIN put_log})
    /\ session_id # None => session_id[1] \in PassedIds
    /\ \E start_time \in time_time(now) :
        IF session_id = None
        THEN \E sid \in uuid4(issued), created_at \in time_time(start_time) :
               /\ now' = created_at
               /\ issued' = issued \cup {sid}
               /\ session_tracker' = create_session(session_tracker, sid,
                                                    None, created_at)
               /\ ask' = [ask EXCEPT ![r] =
                            [IdleCall EXCEPT !.pc = "embedding",
                                             !.question = q,
                                             !.session_id = Some(sid),
                                             !.own_session = TRUE,
                                             !.start_time = Some(start_time)]]
        ELSE /\ now' = start_time
             /\ issued' = issued \cup {session_id[1]}
             /\ UNCHANGED session_tracker
             /\ ask' = [ask EXCEPT ![r] =
                          [IdleCall EXCEPT !.pc = "embedding",
                                           !.question = q,
                                           !.session_id = session_id,
                                           !.start_time = Some(start_time)]]
    /\ UNCHANGED <<phoenix_enabled, jobVars, last_call, eval_enabled, reranker,
                   llm_provider, evaluation_queue, worker, put_log, eval_log,
                   evaluations>>

\* _retrieve_documents lines 113-125: the embedding of the question, timed
\* by two readings of the clock, and its track (nothing is recorded when
\* the tracer raises at the span, sink_ok FALSE).  When the embedding raises,
\* the except block of answer_question reads the clock and returns the
\* failure.
AskEmbed(r) ==
    /\ ask[r].pc = "embedding"
    /\ \E embedding_start \in time_time(now) :
       \E end \in time_time(embedding_start) :
        /\ now' = end
        /\ \/ \E m \in Messages :
                /\ ask' = [ask EXCEPT ![r] = Fail(@, m, end)]
                /\ UNCHANGED session_tracker
           \/ \E sink_ok \in SinkOutcomes(ask[r]) :
                /\ session_tracker' = track_embedding_generation(
                       session_tracker, phoenix_enabled, sink_ok,
                       ask[r].session_id[1], ask[r].question,
                       end - embedding_start)
                /\ ask' = [ask EXCEPT ![r].pc = "search",
                                      ![r].tracer_failures =
                                          IF sink_ok THEN @ ELSE @ + 1]
    /\ UNCHANGED <<issued, phoenix_enabled, jobVars, last_call, eval_enabled,
                   reranker, llm_provider, evaluation_queue, worker, put_log,
                   eval_log, evaluations>>

\* _retrieve_documents lines 127-143 and 161: the search, timed by two
\* readings, and its track.  Without reranking, or with nothing found, the
\* documents found are what the retrieval returns; with no documents
\* _generate_response returns its fallback text at once (line 264).
AskSearch(r) ==
    /\ ask[r].pc = "search"
    /\ \E search_start \in time_time(now) :
       \E end \in time_time(search_start) :
        /\ now' = end
        /\ \/ \E m \in Messages :
                /\ ask' = [ask EXCEPT ![r] = Fail(@, m, end)]
                /\ UNCHANGED session_tracker
           \/ \E articulos \in SearchOutcomes(search_limit(reranker)),
                 sink_ok \in SinkOutcomes(ask[r]) :
                LET search_results == search_documents(articulos) IN
                /\ session_tracker' = track_vectorstore_search(
                       session_tracker, phoenix_enabled, sink_ok,
                       ask[r].session_id[1], ask[r].question,
                       Len(search_results), end - search_start)
                /\ ask' = [ask EXCEPT ![r] =
                      [@ EXCEPT !.documents = search_results,
                                !.tracer_failures =
                                    IF sink_ok THEN @ ELSE @ + 1,
                                !.pc = IF search_results = <<>>
                                       THEN "answered"
                                       ELSE IF reranker # "off"
                                       THEN "reranking" ELSE "llm",
                                !.answer = IF search_results = <<>>
                                           THEN Some(FallbackAnswer)
                                           ELSE None]]
    /\ UNCHANGED <<issued, phoenix_enabled, jobVars, last_call, eval_enabled,
                   reranker, llm_provider, evaluation_queue, worker, put_log,
                   eval_log, evaluations>>

\* _retrieve_documents lines 145-160: the documents found are reranked, the
\* reranking timed by two readings and tracked with the number of documents
\* found
AskRerank(r) ==
    /\ ask[r].pc = "reranking"
    /\ \E rerank_start \in time_time(now) :
       \E end \in time_time(rerank_start), sink_ok \in SinkOutcomes(ask[r]),
          scores \in ScoreOutcomes(Len(ask[r].documents), reranker) :
        LET res == rerank_documents(ask[r].documents, TopK, reranker, scores)
        IN  /\ now' = end
            /\ session_tracker' = track_reranking(session_tracker,
                   phoenix_enabled, sink_ok, ask[r].session_id[1],
                   ask[r].question, Len(ask[r].documents),
                   end - rerank_start)
            /\ ask' = [ask EXCEPT ![r] =
                  [@ EXCEPT !.documents = res.documents,
                            !.reranking_applied = res.reranking_applied,
                            !.tracer_failures = IF sink_ok THEN @ ELSE @ + 1,
                            !.pc = "llm"]]
    /\ UNCHANGED <<issued, phoenix_enabled, jobVars, last_call, eval_enabled,
                   reranker, llm_provider, evaluation_queue, worker, put_log,
                   eval_log, evaluations>>

\* _generate_openai_response / _generate_gemini_response and the track of
\* _generate_response lines 281-292: an attempt of the LLM call ends.  A
\* success is tracked (nothing is recorded when the tracer raises at the
\* span, sink_ok FALSE) and the call has its answer; a failure is retried
\* after the wait while attempts remain, and is a RetryError after the last,
\* which the except block of answer_question turns into the failure result.
\* The OpenAI attempt is awaited, so the call resumes when the loop's thread
\* is free; the Gemini call and its waits keep the thread (LoopBlocked).
LlmAttempt(r) ==
    /\ ask[r].pc = "llm"
    /\ ~LoopBlocked(r)
    /\ now' \in time_time(now)
    /\ \/ \E text \in Completions, sink_ok \in SinkOutcomes(ask[r]) :
            /\ session_tracker' = track_llm_call(session_tracker,
                   phoenix_enabled, sink_ok, ask[r].session_id[1],
                   llm_provider, api_llm_model,
                   _create_prompt(ask[r].question,
                                  _build_context(ask[r].documents)),
                   text)
            /\ ask' = [ask EXCEPT ![r].pc = "answered",
                                  ![r].answer = Some(text),
                                  ![r].tracer_failures =
                                      IF sink_ok THEN @ ELSE @ + 1]
       \/ /\ ask[r].attempts + 1 < StopAfterAttempt
          /\ ask' = [ask EXCEPT ![r].attempts = @ + 1]
          /\ UNCHANGED session_tracker
       \/ /\ ask[r].attempts + 1 >= StopAfterAttempt
          /\ ask' = [ask EXCEPT ![r] = Fail(@, RetryErrorMessage, now')]
          /\ UNCHANGED session_tracker
    /\ UNCHANGED <<issued, phoenix_enabled, jobVars, last_call, eval_enabled, reranker,
                   llm_provider, evaluation_queue, worker, put_log, eval_log,
                   evaluations>>

\* answer_question lines 311-331, with the answer in hand: the processing
\* time is read, the context built and enqueue_evaluation called; the put
\* would block the call while the queue is full.  The call is inside the
\* try, so an exception leaving it would send the call to the except block,
\* which reads the clock again.
AskEnqueue(r) ==
    /\ ask[r].pc = "answered"
    /\ ~(eval_enabled /\ QueueFull(evaluation_queue))
    /\ \E processing_end \in time_time(now) :
       \E except_at \in time_time(processing_end) :
        LET call == ask[r]
            task == EvalTask(call.session_id[1], call.question,
                             _build_context(call.documents), call.answer[1],
                             call.documents)
            put == enqueue_evaluation(evaluation_queue, eval_enabled, task)
        IN  /\ put.exc = None => except_at = processing_end
            /\ now' = except_at
            /\ evaluation_queue' = put.queue
            /\ put_log' = put_log \o
                  [i \in 1..(Len(put.queue) - Len(evaluation_queue)) |->
                      put.queue[Len(evaluation_queue) + i][1]]
            /\ ask' = [ask EXCEPT ![r] =
                  IF put.exc # None
                  THEN Fail(call, put.exc[1], except_at)
                  ELSE [@ EXCEPT !.pc = "enqueued",
                                 !.processing_time =
                                     Some(processing_end
                                          - call.start_time[1])]]
    /\ UNCHANGED <<issued, phoenix_enabled, session_tracker, jobVars, last_call,
                   eval_enabled, reranker, llm_provider, worker, eval_log,
                   evaluations>>

\* answer_question lines 333-378, the task being on the queue (the worker's
\* thread may have taken it already): the response is built from the
\* processing time read before the enqueue and returned.  The exception of
\* a preview sends the call to the except block, which reads the clock.
AskRespond(r) ==
    /\ ask[r].pc = "enqueued"
    /\ LET call == ask[r]
       IN  IF \E i \in 1..Len(call.documents) :
                  PreviewRaises(call.documents[i])
           THEN \E except_at \in time_time(now) :
                   /\ now' = except_at
                   /\ ask' = [ask EXCEPT ![r] =
                          Fail(call, TypeErrorMessage, except_at)]
           ELSE /\ now' = now
                /\ ask' = [ask EXCEPT ![r] =
                       Returned(call, call.answer, None,
                           SuccessResult(call.question, call.answer[1],
                                         call.processing_time[1],
                                         call.documents,
                                         call.reranking_applied,
                                         call.session_id[1]))]
    /\ UNCHANGED <<issued, phoenix_enabled, session_tracker, jobVars, last_call,
                   eval_enabled, reranker, llm_provider, evaluation_queue,
                   worker, put_log, eval_log, evaluations>>

\* --------------------------------------------------------- EvaluationWorker
\* queue.Queue.get on a non-empty queue
QueueGet(queue) == [item |-> Head(queue), queue |-> Tail(queue)]

\* a worker loop that drops the None and goes on
WorkerGetSkipsSignal ==
    /\ worker.pc = "idle"
    /\ evaluation_queue # <<>>
    /\ LET got == QueueGet(evaluation_queue) IN
        /\ evaluation_queue' = got.queue
        /\ worker' = IF got.item = None
                     THEN [pc |-> "idle", task |-> None]
                     ELSE [pc |-> "running", task |-> got.item]
    /\ UNCHANGED <<now, issued, phoenix_enabled, session_tracker, jobVars, last_call,
                   eval_enabled, reranker, llm_provider, ask, put_log,
                   eval_log, evaluations>>

\* worker loop, lines 65-70: take the next item; None ends the loop
WorkerGet ==
    /\ worker.pc = "idle"
    /\ evaluation_queue # <<>>
    /\ LET got == QueueGet(evaluation_queue) IN
        /\ evaluation_queue' = got.queue
        /\ worker' = IF got.item = None
                     THEN [pc |-> "exited", task |-> None]
                     ELSE [pc |-> "running", task |-> got.item]
    /\ UNCHANGED <<now, issued, phoenix_enabled, session_tracker, jobVars, last_call,
                   eval_enabled, reranker, llm_provider, ask, put_log,
                   eval_log, evaluations>>

\* ------------------------------------------------------- calls from outside
\* the record of a call made from outside: the operation, the session id it
\* was given or made, whether it raised, the summary end_session returned,
\* the HTTP response of the handler and the result the pipeline would produce
ApiCall(op, sid, raised, summary, response, produced, span_opened, metadata) ==
    Some([op |-> op, sid |-> sid, raised |-> raised, summary |-> summary,
          response |-> response, produced |-> produced,
          span_opened |-> span_opened, metadata |-> metadata])

\* the record operations of the session tracker
TrackKinds == {"embedding_generation", "vectorstore_search", "reranking",
               "vectorstore_operation", "llm_call", "authentication"}

\* the record operation named kind, applied with fixed arguments and the
\* metadata of the caller, which track_vectorstore_operation serializes and
\* stores and track_authentication stores
Track(kind, tracker, enabled, sink_ok, sid, metadata) ==
    CASE kind = "embedding_generation" ->
           [tracker |-> track_embedding_generation(tracker, enabled, sink_ok,
                                                   sid, <<113, 49>>, 0),
            raised |-> FALSE]
      [] kind = "vectorstore_search" ->
           [tracker |-> track_vectorstore_search(tracker, enabled, sink_ok,
                                                 sid, <<113, 49>>, 1, 0),
            raised |-> FALSE]
      [] kind = "reranking" ->
           [tracker |-> track_reranking(tracker, enabled, sink_ok, sid,
                                        <<113, 49>>, 1, 0),
            raised |-> FALSE]
      [] kind = "vectorstore_operation" ->
           track_vectorstore_operation(tracker, enabled, sink_ok, sid,
                                       "create_collection", metadata)
      [] kind = "llm_call" ->
           [tracker |-> track_llm_call(tracker, enabled, sink_ok, sid,
                                       "openai", api_llm_model, <<"q1">>,
                                       "a1"),
            raised |-> FALSE]
      [] kind = "authentication" ->
           [tracker |-> track_authentication(tracker, enabled, sink_ok, sid,
                                             Some("admin"), TRUE, metadata),
            raised |-> FALSE]

\* a dict json.dumps cannot encode: {(1, 2): 1}
TupleKeyed ==
    PyDictOf([key \in {PyTuple(<<PyInt(1), PyInt(2)>>)} |-> PyInt(1)])

\* the user ids a caller creates a session with: none, or claims holding a
\* value json.dumps cannot encode
ApiUsers == {None, Some(PyDict([sub |-> PyOther("t")]))}

\* the metadata a caller records an action of the kind with: none, or, for
\* the two operations of the model that read it, a dict holding TupleKeyed
ApiMetadatas(kind) ==
    IF kind \in {"vectorstore_operation", "authentication"}
    THEN {None, Some([entry |-> TupleKeyed])}
    ELSE {None}

\* a caller creates a session
ApiCreateSession(user_id) ==
    /\ Cardinality(issued) < MaxSessions
    /\ \E sid \in uuid4(issued) :
        /\ issued' = issued \cup {sid}
        /\ session_tracker' = create_session(session_tracker, sid, user_id,
                                             now)
        /\ last_call' = ApiCall("create_session", Some(sid), FALSE, None,
                                None, None, None, None)
    /\ UNCHANGED <<now, phoenix_enabled, jobVars, answerVars>>

\* a caller ends a session, live or not
ApiEndSession(sid) ==
    LET ended == end_session(session_tracker, sid)
    IN  /\ session_tracker' = ended.tracker
        /\ last_call' = ApiCall("end_session", Some(sid), FALSE,
                                ended.summary, None, None, None, None)
        /\ UNCHANGED <<now, issued, phoenix_enabled, jobVars, answerVars>>

\* the number of actions recorded on the sessions sids
RECURSIVE TotalActions(_, _)
TotalActions(tracker, sids) ==
    IF sids = {} THEN 0
    ELSE LET sid == CHOOSE x \in sids : TRUE
         IN  Len(tracker[sid].actions) + TotalActions(tracker, sids \ {sid})

\* a caller records an action on a session, live or not, with the metadata
\* it passes; sink_ok is whether the tracer accepts the span, which it is
\* asked for only with monitoring enabled
ApiTrack(kind, sid, sink_ok, metadata) ==
    /\ TotalActions(session_tracker, DOMAIN session_tracker) < MaxActions
    /\ LET tracked == Track(kind, session_tracker, phoenix_enabled, sink_ok,
                            sid, metadata)
       IN  /\ session_tracker' = tracked.tracker
           /\ last_call' = ApiCall(kind, Some(sid), tracked.raised, None,
                                   None, None, Some(sink_ok), metadata)
    /\ UNCHANGED <<now, issued, phoenix_enabled, jobVars, answerVars>>

\* --------------------------------------------------------------- Endpoint
\* str() of the TypeError that subscripting a coroutine raises
CoroutineErrorMessage == "'coroutine' object is not subscriptable"

\* the results answer_question produces for a question and a session
PipelineResults(q, sid) ==
    {SuccessResult(q, a, 0, search_documents(<<Some("art")>>), FALSE, sid) :
        a \in Completions}
    \cup {FailureResult(q, m, 0, sid) : m \in Messages}

\* ask_question line 62: answer_question is an async function and the call
\* is not awaited, so what the handler holds is the coroutine object; the
\* body that would produce the result never runs
CallWithoutAwait(produced) == [kind |-> "coroutine", value |-> produced]

\* result["success"]: a dict can be subscripted, a coroutine cannot
Subscriptable(result) == result.kind = "dict"

\* ask_question lines 64-90: the response built from the result, or the
\* 500 of the except clause when building it raises
QuestionResponse(result) ==
    IF Subscriptable(result)
    THEN [status_code |-> 200, success |-> Some(result.value.success),
          answer |-> result.value.answer, error |-> result.value.error,
          detail |-> None]
    ELSE [status_code |-> 500, success |-> None, answer |-> None,
          error |-> None, detail |-> Some(CoroutineErrorMessage)]

\* POST /api/rag/ask: the handler has no await, so it runs in one step:
\* create the session, call the pipeline, build the response, and end the
\* session in the finally clause
ask_question(q) ==
    /\ \E sid \in uuid4(issued) :
       \E produced \in PipelineResults(q, sid) :
        LET created == create_session(session_tracker, sid, None, now)
            result == CallWithoutAwait(produced)
        IN  /\ issued' = issued \cup {sid}
            /\ session_tracker' = end_session(created, sid).tracker
            /\ last_call' = ApiCall("ask_question", Some(sid), FALSE, None,
                                    Some(QuestionResponse(result)),
                                    Some(produced), None, None)
    /\ UNCHANGED <<now, phoenix_enabled, jobVars, answerVars>>

\* ---------------------------------------------------------------- Generator
\* the exception classes a provider call raises
ExceptionClasses == {"APIError", "TimeoutError"}

\* what one call of the LLM provider does: return a text or raise
AttemptOutcomes ==
    {[ok |-> TRUE, text |-> a, exc |-> ""] : a \in Completions}
    \cup {[ok |-> FALSE, text |-> "", exc |-> c] : c \in ExceptionClasses}

\* the provider's behaviour over the calls made to it, one more than the
\* policy allows; a provider that has answered keeps answering the same
ProviderScripts ==
    {script \in [1..(StopAfterAttempt + 1) -> AttemptOutcomes] :
        \A i, j \in 1..(StopAfterAttempt + 1) :
            (i < j /\ script[i].ok) => script[j] = script[i]}

\* tenacity's default retry condition, retry_if_exception_type(Exception)
ShouldRetry(exc_class) == TRUE

\* a retry loop that stops one attempt late
RECURSIVE RetryingOneMore(_, _)
RetryingOneMore(script, attempt_number) ==
    IF script[attempt_number].ok
    THEN [response |-> Some(script[attempt_number].text), exc |-> None,
          calls |-> attempt_number]
    ELSE IF ~ShouldRetry(script[attempt_number].exc)
    THEN [response |-> None, exc |-> Some(script[attempt_number].exc),
          calls |-> attempt_number]
    ELSE IF attempt_number > StopAfterAttempt
    THEN [response |-> None, exc |-> Some(RetryErrorMessage),
          calls |-> attempt_number]
    ELSE RetryingOneMore(script, attempt_number + 1)

\* AsyncRetrying / @retry with stop_after_attempt: call the provider; return
\* its text; on an exception that is retried, stop with RetryError once
\* attempt_number has reached the limit, else wait and call again
RECURSIVE Retrying(_, _)
Retrying(script, attempt_number) ==
    IF script[attempt_number].ok
    THEN [response |-> Some(script[attempt_number].text), exc |-> None,
          calls |-> attempt_number]
    ELSE IF ~ShouldRetry(script[attempt_number].exc)
    THEN [response |-> None, exc |-> Some(script[attempt_number].exc),
          calls |-> attempt_number]
    ELSE IF attempt_number >= StopAfterAttempt
    THEN [response |-> None, exc |-> Some(RetryErrorMessage),
          calls |-> attempt_number]
    ELSE Retrying(script, attempt_number + 1)

\* a generation that asks the provider even when there are no documents
_generate_responseAlwaysAsks(tracker, enabled, sink_ok, sid, query, documents, provider, script) ==
    LET res == Retrying(script, 1)
    IN  IF res.exc # None
        THEN [tracker |-> tracker, response |-> None, exc |-> res.exc,
              calls |-> res.calls]
        ELSE [tracker |-> track_llm_call(tracker, enabled, sink_ok, sid,
                              provider, api_llm_model,
                              _create_prompt(query, _build_context(documents)),
                              res.response[1]),
              response |-> res.response, exc |-> None, calls |-> res.calls]

\* a generation that records an llm call also when the provider gave up
_generate_responseTracksFailures(tracker, enabled, sink_ok, sid, query, documents, provider, script) ==
    IF documents = <<>>
    THEN [tracker |-> tracker, response |-> Some(FallbackAnswer),
          exc |-> None, calls |-> 0]
    ELSE IF provider \notin Providers
    THEN [tracker |-> tracker, response |-> None,
          exc |-> Some("Unsupported LLM provider"), calls |-> 0]
    ELSE LET res == Retrying(script, 1)
         IN  IF res.exc # None
             THEN [tracker |-> track_llm_call(tracker, enabled, sink_ok, sid,
                                   provider, api_llm_model,
                                   _create_prompt(query,
                                       _build_context(documents)),
                                   ""),
                   response |-> None, exc |-> res.exc, calls |-> res.calls]
             ELSE [tracker |-> track_llm_call(tracker, enabled, sink_ok, sid,
                                   provider, api_llm_model,
                                   _create_prompt(query,
                                       _build_context(documents)),
                                   res.response[1]),
                   response |-> res.response, exc |-> None,
                   calls |-> res.calls]

\* RAGService._generate_response: the fallback for no documents, else the
\* provider under the retry policy and the llm-call record after a success
\* (nothing is recorded when the tracer raises at the span: sink_ok FALSE);
\* calls counts the provider calls made
_generate_response(tracker, enabled, sink_ok, sid, query, documents, provider, script) ==
    IF documents = <<>>
    THEN [tracker |-> tracker, response |-> Some(FallbackAnswer),
          exc |-> None, calls |-> 0]
    ELSE IF provider \notin Providers
    THEN [tracker |-> tracker, response |-> None,
          exc |-> Some("Unsupported LLM provider"), calls |-> 0]
    ELSE LET res == Retrying(script, 1)
         IN  IF res.exc # None
             THEN [tracker |-> tracker, response |-> None, exc |-> res.exc,
                   calls |-> res.calls]
             ELSE [tracker |-> track_llm_call(tracker, enabled, sink_ok, sid,
                                   provider, api_llm_model,
                                   _create_prompt(query,
                                       _build_context(documents)),
                                   res.response[1]),
                   response |-> res.response, exc |-> None,
                   calls |-> res.calls]

\* the record of a call of one function: its arguments and what it returned
UnitCall(op, args, returned) ==
    Some([op |-> op, args |-> args, returned |-> returned])

\* the session table a function is called with: one live session, or none
UnitTrackers == {EmptyDict, create_session(EmptyDict, 1, None, 0)}

\* a caller runs _generate_response once on chosen arguments, for session 1
UnitGenerate(tracker, sink_ok, q, articulos, provider, script) ==
    /\ last_call = None
    /\ LET documents == search_documents(articulos)
           res == _generate_response(tracker, phoenix_enabled, sink_ok, 1, q,
                                     documents, provider, script)
       IN  last_call' = UnitCall("_generate_response",
                  [query |-> q, documents |-> documents,
                   provider |-> provider, script |-> script,
                   tracker |-> tracker, sink_ok |-> sink_ok],
                  res)
    /\ UNCHANGED <<now, issued, phoenix_enabled, session_tracker, jobVars,
                   answerVars>>

\* the values of RAGService.top_k a retrieval is run with
TopKs == 1..MaxTopK

\* what a search may return under a limit, every point with an article text
Candidates(limit) ==
    {[i \in 1..n |-> Some("art")] : n \in 0..Min(limit, MaxCandidates)}

\* what model.predict may do for n documents: raise, or one score each
PredictOutcomes(n, rr) ==
    IF rr = "on" /\ n > 0
    THEN {None} \cup {Some(f) : f \in [1..n -> 1..MaxScore]}
    ELSE {None}

\* a caller runs _retrieve_documents once on chosen arguments, for session 1
UnitRetrieve(tracker, q, top_k, rr, articulos, scores, embed_exc, search_exc, times, span_ok) ==
    /\ last_call = None
    /\ LET found == search_documents(articulos)
           res == _retrieve_documents(tracker, phoenix_enabled, 1, q, top_k,
                      rr, embed_exc, search_exc, found, scores, times,
                      span_ok)
       IN  last_call' = UnitCall("_retrieve_documents",
                  [query |-> q, top_k |-> top_k, use_reranking |-> rr,
                   found |-> found, scores |-> scores,
                   embed_exc |-> embed_exc, search_exc |-> search_exc,
                   times |-> times, span_ok |-> span_ok,
                   enabled |-> phoenix_enabled, tracker |-> tracker],
                  res)
    /\ UNCHANGED <<now, issued, phoenix_enabled, session_tracker, jobVars,
                   answerVars>>

\* ---------------------------------------------------------------- Evaluator
\* scores are counted in tenths: 1.0 is FullScore, 0.5 is Indeterminate
FullScore == 10
Indeterminate == 5

\* the weights of _calculate_overall_quality, in tenths
RelevanceWeight == 5
HallucinationWeight == 4
ToxicityWeight == 1

\* texts are sequences of characters, a character being its Unicode code
\* point: "relevant" is 114 101 108 101 118 97 110 116
Relevant == <<114, 101, 108, 101, 118, 97, 110, 116>>
Irrelevant == <<105, 114>> \o Relevant
IrrelevantCapital == <<73, 114>> \o Relevant
Unsure == <<117, 110, 115, 117, 114, 101>>
Factual == <<102, 97, 99, 116, 117, 97, 108>>
Hallucinated == <<104, 97, 108, 108, 117, 99, 105, 110, 97, 116, 101, 100>>
Hallucination == <<104, 97, 108, 108, 117, 99, 105, 110, 97, 116, 105, 111, 110>>
Toxico == <<116, 111, 120, 105, 99, 111>>
\* "t", o with an acute accent (U+00F3), "xico"
ToxicoAccent == <<116, 243, 120, 105, 99, 111>>
NoToxicoHyphen == <<110, 111, 45>> \o ToxicoAccent
NoToxico == <<110, 111, 32>> \o Toxico
NoToxicoAccent == <<110, 111, 32>> \o ToxicoAccent

RelevantUpper == <<82, 69, 76, 69, 86, 65, 78, 84>>
FactualCapital == <<70, 97, 99, 116, 117, 97, 108>>
ToxicoCapital == <<84, 243, 120, 105, 99, 111>>
\* "T", O with an acute accent (U+00D3), "XICO"
ToxicoUpper == <<84, 211, 88, 73, 67, 79>>

\* the case tables of the interpreter (CPython 3.11, Unicode 14.0.0), as
\* str.lower reads them, each in the order of the code points.  LowerRanges
\* holds the characters with a lower-case character of their own:
\* <<first, last, delta, step>> stands for first, first + step, ... up to
\* last, each of which becomes itself + delta.  CasedRanges holds the cased
\* characters that are not case-ignorable and CaseIgnorableRanges the
\* case-ignorable ones, as <<first, last>>
LowerRanges ==
    <<<<65, 90, 32, 1>>, <<192, 214, 32, 1>>, <<216, 222, 32, 1>>, <<256, 302, 1, 2>>, <<306, 310, 1, 2>>,
      <<313, 327, 1, 2>>, <<330, 374, 1, 2>>, <<376, 376, -121, 1>>, <<377, 381, 1, 2>>, <<385, 385, 210, 1>>,
      <<386, 388, 1, 2>>, <<390, 390, 206, 1>>, <<391, 391, 1, 1>>, <<393, 394, 205, 1>>, <<395, 395, 1, 1>>,
      <<398, 398, 79, 1>>, <<399, 399, 202, 1>>, <<400, 400, 203, 1>>, <<401, 401, 1, 1>>, <<403, 403, 205, 1>>,
      <<404, 404, 207, 1>>, <<406, 406, 211, 1>>, <<407, 407, 209, 1>>, <<408, 408, 1, 1>>, <<412, 412, 211, 1>>,
      <<413, 413, 213, 1>>, <<415, 415, 214, 1>>, <<416, 420, 1, 2>>, <<422, 422, 218, 1>>, <<423, 423, 1, 1>>,
      <<425, 425, 218, 1>>, <<428, 428, 1, 1>>, <<430, 430, 218, 1>>, <<431, 431, 1, 1>>, <<433, 434, 217, 1>>,
      <<435, 437, 1, 2>>, <<439, 439, 219, 1>>, <<440, 440, 1, 1>>, <<444, 444, 1, 1>>, <<452, 452, 2, 1>>,
      <<453, 453, 1, 1>>, <<455, 455, 2, 1>>, <<456, 456, 1, 1>>, <<458, 458, 2, 1>>, <<459, 475, 1, 2>>,
      <<478, 494, 1, 2>>, <<497, 497, 2, 1>>, <<498, 500, 1, 2>>, <<502, 502, -97, 1>>, <<503, 503, -56, 1>>,
      <<504, 542, 1, 2>>, <<544, 544, -130, 1>>, <<546, 562, 1, 2>>, <<570, 570, 10795, 1>>, <<571, 571, 1, 1>>,
      <<573, 573, -163, 1>>, <<574, 574, 10792, 1>>, <<577, 577, 1, 1>>, <<579, 579, -195, 1>>, <<580, 580, 69, 1>>,
      <<581, 581, 71, 1>>, <<582, 590, 1, 2>>, <<880, 882, 1, 2>>, <<886, 886, 1, 1>>, <<895, 895, 116, 1>>,
      <<902, 902, 38, 1>>, <<904, 906, 37, 1>>, <<908, 908, 64, 1>>, <<910, 911, 63, 1>>, <<913, 929, 32, 1>>,
      <<931, 939, 32, 1>>, <<975, 975, 8, 1>>, <<984, 1006, 1, 2>>, <<1012, 1012, -60, 1>>, <<1015, 1015, 1, 1>>,
      <<1017, 1017, -7, 1>>, <<1018, 1018, 1, 1>>, <<1021, 1023, -130, 1>>, <<1024, 1039, 80, 1>>, <<1040, 1071, 32, 1>>,
      <<1120, 1152, 1, 2>>, <<1162, 1214, 1, 2>>, <<1216, 1216, 15, 1>>, <<1217, 1229, 1, 2>>, <<1232, 1326, 1, 2>>,
      <<1329, 1366, 48, 1>>, <<4256, 4293, 7264, 1>>, <<4295, 4295, 7264, 1>>, <<4301, 4301, 7264, 1>>, <<5024, 5103, 38864, 1>>,
      <<5104, 5109, 8, 1>>, <<7312, 7354, -3008, 1>>, <<7357, 7359, -3008, 1>>, <<7680, 7828, 1, 2>>, <<7838, 7838, -7615, 1>>,
      <<7840, 7934, 1, 2>>, <<7944, 7951, -8, 1>>, <<7960, 7965, -8, 1>>, <<7976, 7983, -8, 1>>, <<7992, 7999, -8, 1>>,
      <<8008, 8013, -8, 1>>, <<8025, 8031, -8, 2>>, <<8040, 8047, -8, 1>>, <<8072, 8079, -8, 1>>, <<8088, 8095, -8, 1>>,
      <<8104, 8111, -8, 1>>, <<8120, 8121, -8, 1>>, <<8122, 8123, -74, 1>>, <<8124, 8124, -9, 1>>, <<8136, 8139, -86, 1>>,
      <<8140, 8140, -9, 1>>, <<8152, 8153, -8, 1>>, <<8154, 8155, -100, 1>>, <<8168, 8169, -8, 1>>, <<8170, 8171, -112, 1>>,
      <<8172, 8172, -7, 1>>, <<8184, 8185, -128, 1>>, <<8186, 8187, -126, 1>>, <<8188, 8188, -9, 1>>, <<8486, 8486, -7517, 1>>,
      <<8490, 8490, -8383, 1>>, <<8491, 8491, -8262, 1>>, <<8498, 8498, 28, 1>>, <<8544, 8559, 16, 1>>, <<8579, 8579, 1, 1>>,
      <<9398, 9423, 26, 1>>, <<11264, 11311, 48, 1>>, <<11360, 11360, 1, 1>>, <<11362, 11362, -10743, 1>>, <<11363, 11363, -3814, 1>>,
      <<11364, 11364, -10727, 1>>, <<11367, 11371, 1, 2>>, <<11373, 11373, -10780, 1>>, <<11374, 11374, -10749, 1>>, <<11375, 11375, -10783, 1>>,
      <<11376, 11376, -10782, 1>>, <<11378, 11378, 1, 1>>, <<11381, 11381, 1, 1>>, <<11390, 11391, -10815, 1>>, <<11392, 11490, 1, 2>>,
      <<11499, 11501, 1, 2>>, <<11506, 11506, 1, 1>>, <<42560, 42604, 1, 2>>, <<42624, 42650, 1, 2>>, <<42786, 42798, 1, 2>>,
      <<42802, 42862, 1, 2>>, <<42873, 42875, 1, 2>>, <<42877, 42877, -35332, 1>>, <<42878, 42886, 1, 2>>, <<42891, 42891, 1, 1>>,
      <<42893, 42893, -42280, 1>>, <<42896, 42898, 1, 2>>, <<42902, 42920, 1, 2>>, <<42922, 42922, -42308, 1>>, <<42923, 42923, -42319, 1>>,
      <<42924, 42924, -42315, 1>>, <<42925, 42925, -42305, 1>>, <<42926, 42926, -42308, 1>>, <<42928, 42928, -42258, 1>>, <<42929, 42929, -42282, 1>>,
      <<42930, 42930, -42261, 1>>, <<42931, 42931, 928, 1>>, <<42932, 42946, 1, 2>>, <<42948, 42948, -48, 1>>, <<42949, 42949, -42307, 1>>,
      <<42950, 42950, -35384, 1>>, <<42951, 42953, 1, 2>>, <<42960, 42960, 1, 1>>, <<42966, 42968, 1, 2>>, <<42997, 42997, 1, 1>>,
      <<65313, 65338, 32, 1>>, <<66560, 66599, 40, 1>>, <<66736, 66771, 40, 1>>, <<66928, 66938, 39, 1>>, <<66940, 66954, 39, 1>>,
      <<66956, 66962, 39, 1>>, <<66964, 66965, 39, 1>>, <<68736, 68786, 64, 1>>, <<71840, 71871, 32, 1>>, <<93760, 93791, 32, 1>>,
      <<125184, 125217, 34, 1>>>>

CasedRanges ==
    <<<<65, 90>>, <<97, 122>>, <<170, 170>>, <<181, 181>>, <<186, 186>>, <<192, 214>>, <<216, 246>>,
      <<248, 442>>, <<444, 447>>, <<452, 659>>, <<661, 687>>, <<880, 883>>, <<886, 887>>, <<891, 893>>,
      <<895, 895>>, <<902, 902>>, <<904, 906>>, <<908, 908>>, <<910, 929>>, <<931, 1013>>, <<1015, 1153>>,
      <<1162, 1327>>, <<1329, 1366>>, <<1376, 1416>>, <<4256, 4293>>, <<4295, 4295>>, <<4301, 4301>>, <<4304, 4346>>,
      <<4349, 4351>>, <<5024, 5109>>, <<5112, 5117>>, <<7296, 7304>>, <<7312, 7354>>, <<7357, 7359>>, <<7424, 7467>>,
      <<7531, 7543>>, <<7545, 7578>>, <<7680, 7957>>, <<7960, 7965>>, <<7968, 8005>>, <<8008, 8013>>, <<8016, 8023>>,
      <<8025, 8025>>, <<8027, 8027>>, <<8029, 8029>>, <<8031, 8061>>, <<8064, 8116>>, <<8118, 8124>>, <<8126, 8126>>,
      <<8130, 8132>>, <<8134, 8140>>, <<8144, 8147>>, <<8150, 8155>>, <<8160, 8172>>, <<8178, 8180>>, <<8182, 8188>>,
      <<8450, 8450>>, <<8455, 8455>>, <<8458, 8467>>, <<8469, 8469>>, <<8473, 8477>>, <<8484, 8484>>, <<8486, 8486>>,
      <<8488, 8488>>, <<8490, 8493>>, <<8495, 8500>>, <<8505, 8505>>, <<8508, 8511>>, <<8517, 8521>>, <<8526, 8526>>,
      <<8544, 8575>>, <<8579, 8580>>, <<9398, 9449>>, <<11264, 11387>>, <<11390, 11492>>, <<11499, 11502>>, <<11506, 11507>>,
      <<11520, 11557>>, <<11559, 11559>>, <<11565, 11565>>, <<42560, 42605>>, <<42624, 42651>>, <<42786, 42863>>, <<42865, 42887>>,
      <<42891, 42894>>, <<42896, 42954>>, <<42960, 42961>>, <<42963, 42963>>, <<42965, 42969>>, <<42997, 42998>>, <<43002, 43002>>,
      <<43824, 43866>>, <<43872, 43880>>, <<43888, 43967>>, <<64256, 64262>>, <<64275, 64279>>, <<65313, 65338>>, <<65345, 65370>>,
      <<66560, 66639>>, <<66736, 66771>>, <<66776, 66811>>, <<66928, 66938>>, <<66940, 66954>>, <<66956, 66962>>, <<66964, 66965>>,
      <<66967, 66977>>, <<66979, 66993>>, <<66995, 67001>>, <<67003, 67004>>, <<68736, 68786>>, <<68800, 68850>>, <<71840, 71903>>,
      <<93760, 93823>>, <<119808, 119892>>, <<119894, 119964>>, <<119966, 119967>>, <<119970, 119970>>, <<119973, 119974>>, <<119977, 119980>>,
      <<119982, 119993>>, <<119995, 119995>>, <<119997, 120003>>, <<120005, 120069>>, <<120071, 120074>>, <<120077, 120084>>, <<120086, 120092>>,
      <<120094, 120121>>, <<120123, 120126>>, <<120128, 120132>>, <<120134, 120134>>, <<120138, 120144>>, <<120146, 120485>>, <<120488, 120512>>,
      <<120514, 120538>>, <<120540, 120570>>, <<120572, 120596>>, <<120598, 120628>>, <<120630, 120654>>, <<120656, 120686>>, <<120688, 120712>>,
      <<120714, 120744>>, <<120746, 120770>>, <<120772, 120779>>, <<122624, 122633>>, <<122635, 122654>>, <<125184, 125251>>, <<127280, 127305>>,
      <<127312, 127337>>, <<127344, 127369>>>>

CaseIgnorableRanges ==
    <<<<39, 39>>, <<46, 46>>, <<58, 58>>, <<94, 94>>, <<96, 96>>, <<168, 168>>, <<173, 173>>,
      <<175, 175>>, <<180, 180>>, <<183, 184>>, <<688, 879>>, <<884, 885>>, <<890, 890>>, <<900, 901>>,
      <<903, 903>>, <<1155, 1161>>, <<1369, 1369>>, <<1375, 1375>>, <<1425, 1469>>, <<1471, 1471>>, <<1473, 1474>>,
      <<1476, 1477>>, <<1479, 1479>>, <<1524, 1524>>, <<1536, 1541>>, <<1552, 1562>>, <<1564, 1564>>, <<1600, 1600>>,
      <<1611, 1631>>, <<1648, 1648>>, <<1750, 1757>>, <<1759, 1768>>, <<1770, 1773>>, <<1807, 1807>>, <<1809, 1809>>,
      <<1840, 1866>>, <<1958, 1968>>, <<2027, 2037>>, <<2042, 2042>>, <<2045, 2045>>, <<2070, 2093>>, <<2137, 2139>>,
      <<2184, 2184>>, <<2192, 2193>>, <<2200, 2207>>, <<2249, 2306>>, <<2362, 2362>>, <<2364, 2364>>, <<2369, 2376>>,
      <<2381, 2381>>, <<2385, 2391>>, <<2402, 2403>>, <<2417, 2417>>, <<2433, 2433>>, <<2492, 2492>>, <<2497, 2500>>,
      <<2509, 2509>>, <<2530, 2531>>, <<2558, 2558>>, <<2561, 2562>>, <<2620, 2620>>, <<2625, 2626>>, <<2631, 2632>>,
      <<2635, 2637>>, <<2641, 2641>>, <<2672, 2673>>, <<2677, 2677>>, <<2689, 2690>>, <<2748, 2748>>, <<2753, 2757>>,
      <<2759, 2760>>, <<2765, 2765>>, <<2786, 2787>>, <<2810, 2815>>, <<2817, 2817>>, <<2876, 2876>>, <<2879, 2879>>,
      <<2881, 2884>>, <<2893, 2893>>, <<2901, 2902>>, <<2914, 2915>>, <<2946, 2946>>, <<3008, 3008>>, <<3021, 3021>>,
      <<3072, 3072>>, <<3076, 3076>>, <<3132, 3132>>, <<3134, 3136>>, <<3142, 3144>>, <<3146, 3149>>, <<3157, 3158>>,
      <<3170, 3171>>, <<3201, 3201>>, <<3260, 3260>>, <<3263, 3263>>, <<3270, 3270>>, <<3276, 3277>>, <<3298, 3299>>,
      <<3328, 3329>>, <<3387, 3388>>, <<3393, 3396>>, <<3405, 3405>>, <<3426, 3427>>, <<3457, 3457>>, <<3530, 3530>>,
      <<3538, 3540>>, <<3542, 3542>>, <<3633, 3633>>, <<3636, 3642>>, <<3654, 3662>>, <<3761, 3761>>, <<3764, 3772>>,
      <<3782, 3782>>, <<3784, 3789>>, <<3864, 3865>>, <<3893, 3893>>, <<3895, 3895>>, <<3897, 3897>>, <<3953, 3966>>,
      <<3968, 3972>>, <<3974, 3975>>, <<3981, 3991>>, <<3993, 4028>>, <<4038, 4038>>, <<4141, 4144>>, <<4146, 4151>>,
      <<4153, 4154>>, <<4157, 4158>>, <<4184, 4185>>, <<4190, 4192>>, <<4209, 4212>>, <<4226, 4226>>, <<4229, 4230>>,
      <<4237, 4237>>, <<4253, 4253>>, <<4348, 4348>>, <<4957, 4959>>, <<5906, 5908>>, <<5938, 5939>>, <<5970, 5971>>,
      <<6002, 6003>>, <<6068, 6069>>, <<6071, 6077>>, <<6086, 6086>>, <<6089, 6099>>, <<6103, 6103>>, <<6109, 6109>>,
      <<6155, 6159>>, <<6211, 6211>>, <<6277, 6278>>, <<6313, 6313>>, <<6432, 6434>>, <<6439, 6440>>, <<6450, 6450>>,
      <<6457, 6459>>, <<6679, 6680>>, <<6683, 6683>>, <<6742, 6742>>, <<6744, 6750>>, <<6752, 6752>>, <<6754, 6754>>,
      <<6757, 6764>>, <<6771, 6780>>, <<6783, 6783>>, <<6823, 6823>>, <<6832, 6862>>, <<6912, 6915>>, <<6964, 6964>>,
      <<6966, 6970>>, <<6972, 6972>>, <<6978, 6978>>, <<7019, 7027>>, <<7040, 7041>>, <<7074, 7077>>, <<7080, 7081>>,
      <<7083, 7085>>, <<7142, 7142>>, <<7144, 7145>>, <<7149, 7149>>, <<7151, 7153>>, <<7212, 7219>>, <<7222, 7223>>,
      <<7288, 7293>>, <<7376, 7378>>, <<7380, 7392>>, <<7394, 7400>>, <<7405, 7405>>, <<7412, 7412>>, <<7416, 7417>>,
      <<7468, 7530>>, <<7544, 7544>>, <<7579, 7679>>, <<8125, 8125>>, <<8127, 8129>>, <<8141, 8143>>, <<8157, 8159>>,
      <<8173, 8175>>, <<8189, 8190>>, <<8203, 8207>>, <<8216, 8217>>, <<8228, 8228>>, <<8231, 8231>>, <<8234, 8238>>,
      <<8288, 8292>>, <<8294, 8303>>, <<8305, 8305>>, <<8319, 8319>>, <<8336, 8348>>, <<8400, 8432>>, <<11388, 11389>>,
      <<11503, 11505>>, <<11631, 11631>>, <<11647, 11647>>, <<11744, 11775>>, <<11823, 11823>>, <<12293, 12293>>, <<12330, 12333>>,
      <<12337, 12341>>, <<12347, 12347>>, <<12441, 12446>>, <<12540, 12542>>, <<40981, 40981>>, <<42232, 42237>>, <<42508, 42508>>,
      <<42607, 42610>>, <<42612, 42621>>, <<42623, 42623>>, <<42652, 42655>>, <<42736, 42737>>, <<42752, 42785>>, <<42864, 42864>>,
      <<42888, 42890>>, <<42994, 42996>>, <<43000, 43001>>, <<43010, 43010>>, <<43014, 43014>>, <<43019, 43019>>, <<43045, 43046>>,
      <<43052, 43052>>, <<43204, 43205>>, <<43232, 43249>>, <<43263, 43263>>, <<43302, 43309>>, <<43335, 43345>>, <<43392, 43394>>,
      <<43443, 43443>>, <<43446, 43449>>, <<43452, 43453>>, <<43471, 43471>>, <<43493, 43494>>, <<43561, 43566>>, <<43569, 43570>>,
      <<43573, 43574>>, <<43587, 43587>>, <<43596, 43596>>, <<43632, 43632>>, <<43644, 43644>>, <<43696, 43696>>, <<43698, 43700>>,
      <<43703, 43704>>, <<43710, 43711>>, <<43713, 43713>>, <<43741, 43741>>, <<43756, 43757>>, <<43763, 43764>>, <<43766, 43766>>,
      <<43867, 43871>>, <<43881, 43883>>, <<44005, 44005>>, <<44008, 44008>>, <<44013, 44013>>, <<64286, 64286>>, <<64434, 64450>>,
      <<65024, 65039>>, <<65043, 65043>>, <<65056, 65071>>, <<65106, 65106>>, <<65109, 65109>>, <<65279, 65279>>, <<65287, 65287>>,
      <<65294, 65294>>, <<65306, 65306>>, <<65342, 65342>>, <<65344, 65344>>, <<65392, 65392>>, <<65438, 65439>>, <<65507, 65507>>,
      <<65529, 65531>>, <<66045, 66045>>, <<66272, 66272>>, <<66422, 66426>>, <<67456, 67461>>, <<67463, 67504>>, <<67506, 67514>>,
      <<68097, 68099>>, <<68101, 68102>>, <<68108, 68111>>, <<68152, 68154>>, <<68159, 68159>>, <<68325, 68326>>, <<68900, 68903>>,
      <<69291, 69292>>, <<69446, 69456>>, <<69506, 69509>>, <<69633, 69633>>, <<69688, 69702>>, <<69744, 69744>>, <<69747, 69748>>,
      <<69759, 69761>>, <<69811, 69814>>, <<69817, 69818>>, <<69821, 69821>>, <<69826, 69826>>, <<69837, 69837>>, <<69888, 69890>>,
      <<69927, 69931>>, <<69933, 69940>>, <<70003, 70003>>, <<70016, 70017>>, <<70070, 70078>>, <<70089, 70092>>, <<70095, 70095>>,
      <<70191, 70193>>, <<70196, 70196>>, <<70198, 70199>>, <<70206, 70206>>, <<70367, 70367>>, <<70371, 70378>>, <<70400, 70401>>,
      <<70459, 70460>>, <<70464, 70464>>, <<70502, 70508>>, <<70512, 70516>>, <<70712, 70719>>, <<70722, 70724>>, <<70726, 70726>>,
      <<70750, 70750>>, <<70835, 70840>>, <<70842, 70842>>, <<70847, 70848>>, <<70850, 70851>>, <<71090, 71093>>, <<71100, 71101>>,
      <<71103, 71104>>, <<71132, 71133>>, <<71219, 71226>>, <<71229, 71229>>, <<71231, 71232>>, <<71339, 71339>>, <<71341, 71341>>,
      <<71344, 71349>>, <<71351, 71351>>, <<71453, 71455>>, <<71458, 71461>>, <<71463, 71467>>, <<71727, 71735>>, <<71737, 71738>>,
      <<71995, 71996>>, <<71998, 71998>>, <<72003, 72003>>, <<72148, 72151>>, <<72154, 72155>>, <<72160, 72160>>, <<72193, 72202>>,
      <<72243, 72248>>, <<72251, 72254>>, <<72263, 72263>>, <<72273, 72278>>, <<72281, 72283>>, <<72330, 72342>>, <<72344, 72345>>,
      <<72752, 72758>>, <<72760, 72765>>, <<72767, 72767>>, <<72850, 72871>>, <<72874, 72880>>, <<72882, 72883>>, <<72885, 72886>>,
      <<73009, 73014>>, <<73018, 73018>>, <<73020, 73021>>, <<73023, 73029>>, <<73031, 73031>>, <<73104, 73105>>, <<73109, 73109>>,
      <<73111, 73111>>, <<73459, 73460>>, <<78896, 78904>>, <<92912, 92916>>, <<92976, 92982>>, <<92992, 92995>>, <<94031, 94031>>,
      <<94095, 94111>>, <<94176, 94177>>, <<94179, 94180>>, <<110576, 110579>>, <<110581, 110587>>, <<110589, 110590>>, <<113821, 113822>>,
      <<113824, 113827>>, <<118528, 118573>>, <<118576, 118598>>, <<119143, 119145>>, <<119155, 119170>>, <<119173, 119179>>, <<119210, 119213>>,
      <<119362, 119364>>, <<121344, 121398>>, <<121403, 121452>>, <<121461, 121461>>, <<121476, 121476>>, <<121499, 121503>>, <<121505, 121519>>,
      <<122880, 122886>>, <<122888, 122904>>, <<122907, 122913>>, <<122915, 122916>>, <<122918, 122922>>, <<123184, 123197>>, <<123566, 123566>>,
      <<123628, 123631>>, <<125136, 125142>>, <<125252, 125259>>, <<127995, 127999>>, <<917505, 917505>>, <<917536, 917631>>, <<917760, 917999>>>>

\* the entry of a table whose first..last holds c, found by bisection
\* between the entries lo and hi; <<>> when there is none
RECURSIVE FindRange(_, _, _, _)
FindRange(table, c, lo, hi) ==
    IF lo > hi THEN <<>>
    ELSE LET mid == (lo + hi) \div 2 IN
         IF c < table[mid][1] THEN FindRange(table, c, lo, mid - 1)
         ELSE IF c > table[mid][2] THEN FindRange(table, c, mid + 1, hi)
         ELSE table[mid]

InRanges(c, table) == FindRange(table, c, 1, Len(table)) # <<>>

\* str.lower of a one-character text: the lower-case character of a
\* character that has one, "i" and a combining dot above (U+0069 U+0307) for
\* the capital I with a dot (U+0130), and the character itself otherwise
LowerChar(c) ==
    LET rg == FindRange(LowerRanges, c, 1, Len(LowerRanges)) IN
    IF c = 304 THEN <<105, 775>>
    ELSE IF rg # <<>> /\ (c - rg[1]) % rg[4] = 0 THEN <<c + rg[3]>>
    ELSE <<c>>

\* the capital sigma (U+03A3) at position i ends a word: the nearest
\* character before it that is not case-ignorable is cased, and the nearest
\* such character after it, if there is one, is not
FinalSigma(text, i) ==
    LET before == {j \in 1..(i - 1) : ~InRanges(text[j], CaseIgnorableRanges)}
        after == {j \in (i + 1)..Len(text) : ~InRanges(text[j], CaseIgnorableRanges)}
    IN  /\ before # {}
        /\ InRanges(text[CHOOSE j \in before : \A k \in before : k <= j], CasedRanges)
        /\ \/ after = {}
           \/ ~InRanges(text[CHOOSE j \in after : \A k \in after : j <= k], CasedRanges)

RECURSIVE LowerFrom(_, _)
LowerFrom(text, i) ==
    IF i > Len(text) THEN <<>>
    ELSE (IF text[i] = 931 /\ FinalSigma(text, i) THEN <<962>> ELSE LowerChar(text[i])) \o LowerFrom(text, i + 1)

\* str.lower: every character by LowerChar, but a capital sigma that ends a
\* word becomes the final small sigma (U+03C2)
Lower(text) == LowerFrom(text, 1)

\* word in text
Contains(text, word) ==
    \E start \in 1..(Len(text) - Len(word) + 1) :
        SubSeq(text, start, start + Len(word) - 1) = word

\* what one call of eval_model does: raise, or return a text (None for a
\* null response)
ClassifierOutcome(raised, text) == [raised |-> raised, text |-> text]

RelevanceOutcomes ==
    {ClassifierOutcome(TRUE, None)}
    \cup {ClassifierOutcome(FALSE, t) :
            t \in {None, Some(<<>>), Some(Relevant), Some(Irrelevant),
                   Some(IrrelevantCapital), Some(RelevantUpper),
                   Some(Unsure)}}

HallucinationOutcomes ==
    {ClassifierOutcome(TRUE, None)}
    \cup {ClassifierOutcome(FALSE, t) :
            t \in {Some(Factual), Some(FactualCapital), Some(Hallucinated),
                   Some(Unsure)}}

ToxicityOutcomes ==
    {ClassifierOutcome(TRUE, None)}
    \cup {ClassifierOutcome(FALSE, t) :
            t \in {Some(NoToxicoHyphen), Some(ToxicoAccent),
                   Some(ToxicoCapital), Some(ToxicoUpper), Some(Unsure)}}

\* "eval_response and ..." : a null or empty response is falsy
Truthy(text) == text # None /\ text[1] # <<>>

\* EvaluationService._evaluate_relevance: None when the call raises, else the
\* first branch whose word is in the lowered response
_evaluate_relevance(outcome) ==
    IF outcome.raised THEN None
    ELSE IF Truthy(outcome.text) /\ Contains(Lower(outcome.text[1]), Relevant)
    THEN Some(FullScore)
    ELSE IF Truthy(outcome.text) /\ Contains(Lower(outcome.text[1]), Irrelevant)
    THEN Some(0)
    ELSE Some(Indeterminate)

\* EvaluationService._evaluate_hallucination
_evaluate_hallucination(outcome) ==
    IF outcome.raised THEN None
    ELSE IF Truthy(outcome.text) /\ Contains(Lower(outcome.text[1]), Factual)
    THEN Some(0)
    ELSE IF /\ Truthy(outcome.text)
            /\ \/ Contains(Lower(outcome.text[1]), Hallucinated)
               \/ Contains(Lower(outcome.text[1]), Hallucination)
    THEN Some(FullScore)
    ELSE Some(Indeterminate)

\* EvaluationService._evaluate_toxicity
_evaluate_toxicity(outcome) ==
    IF outcome.raised THEN None
    ELSE IF /\ Truthy(outcome.text)
            /\ \/ Contains(Lower(outcome.text[1]), NoToxicoHyphen)
               \/ Contains(Lower(outcome.text[1]), NoToxico)
               \/ Contains(Lower(outcome.text[1]), NoToxicoAccent)
    THEN Some(0)
    ELSE IF /\ Truthy(outcome.text)
            /\ \/ Contains(Lower(outcome.text[1]), ToxicoAccent)
               \/ Contains(Lower(outcome.text[1]), Toxico)
    THEN Some(FullScore)
    ELSE Some(0)

\* a/b in lowest terms
RECURSIVE GCD(_, _)
GCD(a, b) == IF b = 0 THEN a ELSE GCD(b, a % b)

Fraction(num, den) ==
    [num |-> num \div GCD(num, den), den |-> den \div GCD(num, den)]

\* the sub-scores a check may produce
SubScores == {None, Some(0), Some(Indeterminate), Some(FullScore)}

\* a blend that counts a missing sub-score as zero
_calculate_overall_qualityMissingAsZero(relevance, hallucination, toxicity) ==
    IF relevance = None /\ hallucination = None /\ toxicity = None
    THEN None
    ELSE Some(Fraction(
           (IF relevance # None THEN relevance[1] * RelevanceWeight ELSE 0)
           + (IF hallucination # None
              THEN (FullScore - hallucination[1]) * HallucinationWeight
              ELSE 0)
           + (IF toxicity # None
              THEN (FullScore - toxicity[1]) * ToxicityWeight ELSE 0),
           FullScore
             * (RelevanceWeight + HallucinationWeight + ToxicityWeight)))

\* EvaluationService._calculate_overall_quality: the weighted scores of the
\* sub-scores that are there, over the weights of those; the value is the
\* fraction num/den (Python computes it in floating point)
_calculate_overall_quality(relevance, hallucination, toxicity) ==
    LET total_score ==
            (IF relevance # None THEN relevance[1] * RelevanceWeight ELSE 0)
            + (IF hallucination # None
               THEN (FullScore - hallucination[1]) * HallucinationWeight
               ELSE 0)
            + (IF toxicity # None
               THEN (FullScore - toxicity[1]) * ToxicityWeight ELSE 0)
        total_weight ==
            (IF relevance # None THEN RelevanceWeight ELSE 0)
            + (IF hallucination # None THEN HallucinationWeight ELSE 0)
            + (IF toxicity # None THEN ToxicityWeight ELSE 0)
    IN  IF total_weight = 0 THEN None
        ELSE Some(Fraction(total_score, FullScore * total_weight))

\* a caller runs _evaluate_relevance once with a chosen classifier outcome
UnitRelevance(outcome) ==
    /\ last_call = None
    /\ last_call' = UnitCall("_evaluate_relevance", [outcome |-> outcome],
                             _evaluate_relevance(outcome))
    /\ UNCHANGED <<now, issued, phoenix_enabled, session_tracker, jobVars,
                   answerVars>>

\* a caller runs _calculate_overall_quality once on chosen sub-scores
UnitOverallQuality(relevance, hallucination, toxicity) ==
    /\ last_call = None
    /\ last_call' = UnitCall("_calculate_overall_quality",
                       [relevance |-> relevance,
                        hallucination |-> hallucination,
                        toxicity |-> toxicity],
                       _calculate_overall_quality(relevance, hallucination,
                                                  toxicity))
    /\ UNCHANGED <<now, issued, phoenix_enabled, session_tracker, jobVars,
                   answerVars>>

\* metrics whose grounding repeats the hallucination score
MetricsGroundingRepeats(relevance, hallucination, toxicity) ==
    [relevance |-> relevance, hallucination |-> hallucination,
     toxicity |-> toxicity,
     grounding |-> hallucination,
     overall_quality |-> _calculate_overall_quality(relevance, hallucination,
                                                    toxicity)]

\* ------------------------------------------------------ evaluation of a task
\* EvaluationService._run_evaluation_async, lines 136-160: the three checks
\* run side by side, each result taken as it is, then the metrics and the
\* metadata handed to phoenix_service.track_vectorstore_operation
Metrics(relevance, hallucination, toxicity) ==
    [relevance |-> relevance, hallucination |-> hallucination,
     toxicity |-> toxicity,
     grounding |-> IF hallucination # None
                   THEN Some(FullScore - hallucination[1]) ELSE None,
     overall_quality |-> _calculate_overall_quality(relevance, hallucination,
                                                    toxicity)]

\* eval_task["question"][:200]
QuestionLimit == 200

\* text[:n]
Truncated(text, n) == SubSeq(text, 1, Min(Len(text), n))

\* a question one character longer than what is kept of it
LongQuestion == [i \in 1..(QuestionLimit + 1) |-> 120]

\* metrics.get(name): a float, or None
PyScore(score) == IF score = None THEN PyNone ELSE PyFloat(score[1])

\* EvaluationService._save_evaluation_to_phoenix: the metadata it builds
\* (the lengths of the answer and the context and the task's timestamp are
\* left out)
EvaluationMetadata(metrics, eval_task) ==
    [evaluation_type |-> PyStr("phoenix_evals"),
     relevance_score |-> PyScore(metrics.relevance),
     hallucination_score |-> PyScore(metrics.hallucination),
     toxicity_score |-> PyScore(metrics.toxicity),
     grounding_score |-> PyScore(metrics.grounding),
     overall_quality_score |-> PyScore(metrics.overall_quality),
     question |-> PyStr(Truncated(eval_task.question, QuestionLimit)),
     documents_count |-> PyInt(Len(eval_task.documents))]

\* EvaluationService._save_evaluation_to_phoenix: the session table afterwards
_save_evaluation_to_phoenix(tracker, enabled, sink_ok, sid, metrics, eval_task) ==
    track_vectorstore_operation(tracker, enabled, sink_ok, sid,
        "llm_evaluation", Some(EvaluationMetadata(metrics, eval_task))).tracker

\* an evaluation that is given up when a check has failed
_run_evaluation_asyncAllOrNothing(tracker, enabled, sink_ok, eval_task, rel, hal, tox) ==
    IF rel.raised \/ hal.raised \/ tox.raised
    THEN [tracker |-> tracker, metrics |-> None, saved |-> None]
    ELSE LET metrics == Metrics(_evaluate_relevance(rel),
                                _evaluate_hallucination(hal),
                                _evaluate_toxicity(tox))
         IN  [tracker |-> _save_evaluation_to_phoenix(tracker, enabled,
                              sink_ok, eval_task.session_id, metrics,
                              eval_task),
              metrics |-> Some(metrics),
              saved |-> Some(EvaluationMetadata(metrics, eval_task))]

\* EvaluationService._run_evaluation_async for the classifier outcomes rel,
\* hal and tox: the session table afterwards, the metrics computed and the
\* metadata passed to the monitoring service
_run_evaluation_async(tracker, enabled, sink_ok, eval_task, rel, hal, tox) ==
    LET metrics == Metrics(_evaluate_relevance(rel),
                           _evaluate_hallucination(hal),
                           _evaluate_toxicity(tox))
    IN  [tracker |-> _save_evaluation_to_phoenix(tracker, enabled, sink_ok,
                         eval_task.session_id, metrics, eval_task),
         metrics |-> Some(metrics),
         saved |-> Some(EvaluationMetadata(metrics, eval_task))]

\* a caller runs _run_evaluation_async once on a task of session 1
UnitRunEvaluation(tracker, sink_ok, q, rel, hal, tox) ==
    /\ last_call = None
    /\ LET eval_task == EvalTask(1, q, <<"ctx">>, "a1", <<>>)
       IN  last_call' = UnitCall("_run_evaluation_async",
                  [eval_task |-> eval_task, relevance |-> rel,
                   hallucination |-> hal, toxicity |-> tox,
                   sink_ok |-> sink_ok, tracker |-> tracker],
                  _run_evaluation_async(tracker, phoenix_enabled, sink_ok,
                                        eval_task, rel, hal, tox))
    /\ UNCHANGED <<now, issued, phoenix_enabled, session_tracker, jobVars,
                   answerVars>>

\* ------------------------------------------------- the evaluation worker
\* EvaluationService.enqueue_evaluation, lines 85-110, called from outside
\* the pipeline for a session id the caller passes on: the task holds the
\* documents of a search and the context built from them
EnqueueEvaluation(sid, q, articulos) ==
    /\ Len(put_log) < MaxTasks
    /\ sid \in PassedIds
    /\ q \in NextQuestions({put_log[i].question : i \in DOMAIN put_log})
    /\ \E answer \in Completions :
        LET documents == search_documents(articulos)
            eval_task == EvalTask(sid, q, _build_context(documents), answer,
                                  documents)
            put == enqueue_evaluation(evaluation_queue, eval_enabled,
                                      eval_task)
        IN  /\ evaluation_queue' = put.queue
            /\ put_log' = IF eval_enabled THEN Append(put_log, eval_task)
                          ELSE put_log
    /\ issued' = issued \cup {sid}
    /\ UNCHANGED <<now, phoenix_enabled, session_tracker, jobVars, last_call,
                   eval_enabled, reranker, llm_provider, worker, ask,
                   eval_log, evaluations>>

\* a shutdown that waits for the worker without signalling it
shutdownNoSignal ==
    /\ last_call = None
    /\ last_call' = UnitCall("shutdown", [enqueued |-> put_log], None)
    /\ UNCHANGED <<now, issued, phoenix_enabled, session_tracker, jobVars,
                   answerVars>>

\* EvaluationService.shutdown, line 332: the None that tells the worker to
\* stop goes on the queue behind the tasks already there; the call then
\* waits in executor.shutdown(wait=True) (returned: None while it waits)
shutdown ==
    /\ last_call = None
    /\ evaluation_queue' = Append(evaluation_queue, None)
    /\ last_call' = UnitCall("shutdown", [enqueued |-> put_log], None)
    /\ UNCHANGED <<now, issued, phoenix_enabled, session_tracker, jobVars,
                   eval_enabled, reranker, llm_provider, worker, ask,
                   put_log, eval_log, evaluations>>

\* EvaluationService.shutdown, lines 335-337: executor.shutdown(wait=True)
\* returns once the worker has left its loop, and shutdown returns None
shutdownReturn ==
    /\ last_call # None
    /\ last_call[1].op = "shutdown"
    /\ last_call[1].returned = None
    /\ worker.pc \in {"exited", "absent"}
    /\ last_call' = UnitCall("shutdown", last_call[1].args, Some(None))
    /\ UNCHANGED <<now, issued, phoenix_enabled, session_tracker, jobVars,
                   answerVars>>

\* how a call of _run_evaluation ends for the worker loop: it returns, or an
\* exception leaves it (caught at line 79)
Endings == {"returned", "raised"}

\* a worker loop that an exception of _run_evaluation ends
WorkerEvaluateDies(ending, sink_ok, rel, hal, tox) ==
    /\ worker.pc = "running"
    /\ eval_log' = Append(eval_log, worker.task[1])
    /\ IF ending = "raised"
       THEN /\ UNCHANGED session_tracker
            /\ evaluations' = Append(evaluations,
                   [session_id |-> worker.task[1].session_id,
                    ending |-> "raised"])
            /\ worker' = [pc |-> "dead", task |-> None]
       ELSE /\ session_tracker' =
                   _run_evaluation_async(session_tracker, phoenix_enabled,
                       sink_ok, worker.task[1], rel, hal, tox).tracker
            /\ evaluations' = Append(evaluations,
                   [session_id |-> worker.task[1].session_id,
                    ending |-> IF phoenix_enabled /\ ~sink_ok
                               THEN "sink failed" ELSE "returned"])
            /\ worker' = [pc |-> "idle", task |-> None]
    /\ UNCHANGED <<now, issued, phoenix_enabled, jobVars, last_call,
                   eval_enabled, reranker, llm_provider, evaluation_queue,
                   ask, put_log>>

\* worker loop, lines 72-80, with the evaluation spelled out: the task is
\* evaluated and its result saved (a failed write is caught and logged), or
\* an exception leaves _run_evaluation and is caught and logged by the loop;
\* either way the loop goes on to the next get
WorkerEvaluate(ending, sink_ok, rel, hal, tox) ==
    /\ worker.pc = "running"
    /\ eval_log' = Append(eval_log, worker.task[1])
    /\ IF ending = "raised"
       THEN /\ UNCHANGED session_tracker
            /\ evaluations' = Append(evaluations,
                   [session_id |-> worker.task[1].session_id,
                    ending |-> "raised"])
       ELSE /\ session_tracker' =
                   _run_evaluation_async(session_tracker, phoenix_enabled,
                       sink_ok, worker.task[1], rel, hal, tox).tracker
            /\ evaluations' = Append(evaluations,
                   [session_id |-> worker.task[1].session_id,
                    ending |-> IF phoenix_enabled /\ ~sink_ok
                               THEN "sink failed" ELSE "returned"])
    /\ worker' = [pc |-> "idle", task |-> None]
    /\ UNCHANGED <<now, issued, phoenix_enabled, jobVars, last_call,
                   eval_enabled, reranker, llm_provider, evaluation_queue,
                   ask, put_log>>

\* the worker evaluates the task it holds, with any outcome
WorkerStep ==
    \E ending \in Endings, sink_ok \in BOOLEAN,
       rel \in {ClassifierOutcome(TRUE, None),
                ClassifierOutcome(FALSE, Some(Relevant))},
       hal \in {ClassifierOutcome(TRUE, None),
                ClassifierOutcome(FALSE, Some(Factual))},
       tox \in {ClassifierOutcome(FALSE, Some(NoToxicoHyphen))} :
        WorkerEvaluate(ending, sink_ok, rel, hal, tox)

\* the worker evaluates the task it holds, the three checks answering
\* relevant, factual and not toxic: the result is saved, or the tracer
\* raises, or an exception leaves _run_evaluation
WorkerClean ==
    \E ending \in Endings, sink_ok \in BOOLEAN :
        WorkerEvaluate(ending, sink_ok,
                       ClassifierOutcome(FALSE, Some(Relevant)),
                       ClassifierOutcome(FALSE, Some(Factual)),
                       ClassifierOutcome(FALSE, Some(NoToxicoHyphen)))

\* ------------------------------- the worker thread beside the handlers
\* the metrics of a task whose three checks answered relevant, factual and
\* not toxic
CleanMetrics ==
    Metrics(_evaluate_relevance(ClassifierOutcome(FALSE, Some(Relevant))),
            _evaluate_hallucination(ClassifierOutcome(FALSE, Some(Factual))),
            _evaluate_toxicity(ClassifierOutcome(FALSE, Some(NoToxicoHyphen))))

\* the finally of the ask endpoint, rag.py line 95, on the handlers' thread
HandlerEndSession(sid) ==
    /\ sid \in DOMAIN session_tracker
    /\ session_tracker' = end_session(session_tracker, sid).tracker
    /\ UNCHANGED <<now, issued, phoenix_enabled, jobVars, last_call,
                   answerVars>>

\* the worker thread inside track_vectorstore_operation, up to the test
\* "session_id in self.session_tracker" of line 396: with monitoring off,
\* the tracer raising when the span is opened (line 383, sink_ok FALSE,
\* caught at line 413) or the session gone the call is over, otherwise the
\* access of line 397 is still to come
WorkerCheckSession ==
    /\ worker.pc = "running"
    /\ \E sink_ok \in BOOLEAN :
       IF /\ phoenix_enabled
          /\ sink_ok
          /\ worker.task[1].session_id \in DOMAIN session_tracker
       THEN /\ worker' = [worker EXCEPT !.pc = "checked"]
            /\ UNCHANGED <<eval_log, evaluations>>
       ELSE /\ worker' = [pc |-> "idle", task |-> None]
            /\ eval_log' = Append(eval_log, worker.task[1])
            /\ evaluations' = Append(evaluations,
                   [session_id |-> worker.task[1].session_id,
                    ending |-> IF phoenix_enabled /\ ~sink_ok
                               THEN "sink failed" ELSE "returned"])
    /\ UNCHANGED <<now, issued, phoenix_enabled, session_tracker, jobVars,
                   last_call, eval_enabled, reranker, llm_provider,
                   evaluation_queue, ask, put_log>>

\* the worker thread at line 397: self.session_tracker[session_id] is read
\* and the entry appended; when the handlers' thread has deleted the session
\* since the test, the read raises KeyError, which line 413 catches and logs
WorkerAppendAction ==
    /\ worker.pc = "checked"
    /\ LET sid == worker.task[1].session_id IN
        IF sid \in DOMAIN session_tracker
        THEN /\ session_tracker' =
                    _save_evaluation_to_phoenix(session_tracker,
                        phoenix_enabled, TRUE, sid, CleanMetrics,
                        worker.task[1])
             /\ evaluations' = Append(evaluations,
                    [session_id |-> sid, ending |-> "returned"])
        ELSE /\ UNCHANGED session_tracker
             /\ evaluations' = Append(evaluations,
                    [session_id |-> sid, ending |-> "append lost"])
    /\ eval_log' = Append(eval_log, worker.task[1])
    /\ worker' = [pc |-> "idle", task |-> None]
    /\ UNCHANGED <<now, issued, phoenix_enabled, jobVars, last_call,
                   eval_enabled, reranker, llm_provider, evaluation_queue,
                   ask, put_log>>

\* ------------------------------------------ inputs of the span calls
\* metadata a caller may pass: nothing, or one entry of each type
MetadataValues ==
    {PyStr("s"), PyInt(1), PyBool(TRUE), PyNone,
     PyList(<<PyStr("s"), PyInt(1)>>),
     PyList(<<PyDict([inner |-> PyInt(1)])>>),
     PyDict([inner |-> PyInt(1)]), PyOther("t"),
     PyList(<<PyOther("t")>>), PyDict([inner |-> PyOther("t")]),
     PyDictOf([key \in {PyInt(1)} |-> PyInt(1)]), TupleKeyed,
     PyList(<<TupleKeyed>>)}
Metadatas ==
    {None, Some(EmptyDict)}
    \cup {Some([entry |-> value]) : value \in MetadataValues}

\* the session tables a span is opened with: no session, a session without
\* a user, a session of user u1, a session whose user is the claims of a
\* token, a session whose user holds a value json.dumps cannot encode
SpanTrackers ==
    {EmptyDict, create_session(EmptyDict, 1, None, 0),
     create_session(EmptyDict, 1, Some(PyStr("u1")), 0),
     create_session(EmptyDict, 1, Some(PyDict([sub |-> PyStr("admin")])), 0),
     create_session(EmptyDict, 1, Some(PyDict([sub |-> PyOther("t")])), 0)}

\* a record operation runs with monitoring enabled and a tracer that opens
\* the span, the metadata going to track_vectorstore_operation and
\* track_authentication (the other operations put theirs in no attribute):
\* the attributes the span is opened with, if it is opened, and the session
\* table after the operation
UnitSpan(kind, tracker, metadata) ==
    /\ last_call = None
    /\ phoenix_enabled
    /\ last_call' = UnitCall("start_as_current_span",
           [kind |-> kind, tracker |-> tracker, metadata |-> metadata],
           [attributes |-> SpanAttributes(kind, tracker, 1, metadata),
            tracker |-> Track(kind, tracker, phoenix_enabled, TRUE, 1,
                              metadata).tracker])
    /\ UNCHANGED <<now, issued, phoenix_enabled, session_tracker, jobVars,
                   answerVars>>

\* ------------------------------------------------------ HealthCheckCache
\* health_check_cache = HealthCheckCache(ttl_seconds=5)
ttl_seconds == 5

\* HealthCheckCache.__init__: nothing cached
EmptyCache == [_cache |-> EmptyDict, _timestamps |-> EmptyDict]

\* HealthCheckCache.get at time t: the cache afterwards and the value
\* returned; an entry older than ttl_seconds is deleted and None returned
get(cache, key, t) ==
    IF key \notin DOMAIN cache._cache
    THEN [cache |-> cache, value |-> None]
    ELSE IF t - cache._timestamps[key] > ttl_seconds
    THEN [cache |-> [_cache |-> DictDel(cache._cache, key),
                     _timestamps |-> DictDel(cache._timestamps, key)],
          value |-> None]
    ELSE [cache |-> cache, value |-> Some(cache._cache[key])]

\* HealthCheckCache.set at time t
set(cache, key, value, t) ==
    [_cache |-> DictSet(cache._cache, key, value),
     _timestamps |-> DictSet(cache._timestamps, key, t)]

\* HealthCheckCache.clear: "if key:" sends None and the empty string alike
\* to the branch that empties the whole cache
clear(cache, key) ==
    IF key # None /\ key[1] # ""
    THEN IF key[1] \in DOMAIN cache._cache
         THEN [_cache |-> DictDel(cache._cache, key[1]),
               _timestamps |-> DictDel(cache._timestamps, key[1])]
         ELSE cache
    ELSE EmptyCache

\* what a caller may do with the cache: set, get, clear, or let time pass,
\* up to the time to live or one second beyond it
CacheKeys == {"", "phoenix"}
CacheValues == {"v1", "v2"}
CacheOps ==
    {[op |-> "set", key |-> Some(k), value |-> v, wait |-> 0] :
        k \in CacheKeys, v \in CacheValues}
    \cup {[op |-> "get", key |-> Some(k), value |-> "", wait |-> 0] :
        k \in CacheKeys}
    \cup {[op |-> "clear", key |-> k, value |-> "", wait |-> 0] :
        k \in {None} \cup {Some(c) : c \in CacheKeys}}
    \cup {[op |-> "sleep", key |-> None, value |-> "", wait |-> w] :
        w \in {ttl_seconds, ttl_seconds + 1}}

\* the operations run one after the other from an empty cache at time 0:
\* for each the time it ran at, what it returned and the cache afterwards
RECURSIVE RunCache(_, _, _, _)
RunCache(cache, t, ops, done) ==
    IF ops = <<>> THEN done
    ELSE LET o == Head(ops)
             got == get(cache, o.key[1], t)
             after == CASE o.op = "set" -> set(cache, o.key[1], o.value, t)
                        [] o.op = "get" -> got.cache
                        [] o.op = "clear" -> clear(cache, o.key)
                        [] o.op = "sleep" -> cache
             step == [op |-> o, time |-> t,
                      returned |-> IF o.op = "get" THEN got.value ELSE None,
                      cache |-> after]
         IN  RunCache(after, t + o.wait, Tail(ops), Append(done, step))

\* sequences of at most n operations
RECURSIVE OpSequences(_)
OpSequences(n) ==
    IF n = 0 THEN {<<>>}
    ELSE OpSequences(n - 1)
         \cup {Append(ops, o) : ops \in OpSequences(n - 1), o \in CacheOps}

\* a caller runs a sequence of cache operations
UnitCache(ops) ==
    /\ last_call = None
    /\ last_call' = UnitCall("HealthCheckCache", [ops |-> ops],
                             RunCache(EmptyCache, 0, ops, <<>>))
    /\ UNCHANGED <<now, issued, phoenix_enabled, session_tracker, jobVars,
                   answerVars>>

\* ------------------------------------------- the Phoenix health endpoint
\* PhoenixMonitoringService.health_check: the basic status
health_check(enabled, tracker) ==
    IF ~enabled
    THEN [status |-> "disabled",
          message |-> "Phoenix monitoring is disabled in configuration"]
    ELSE [status |-> "healthy",
          active_sessions |-> Cardinality(DOMAIN tracker)]

\* PhoenixMonitoringService.health_check_extended: the basic status and, when
\* that is healthy, the outcome of the connection test on the collector
health_check_extended(enabled, tracker, conn_ok) ==
    LET basic_health == health_check(enabled, tracker)
    IN  IF basic_health.status # "healthy" THEN basic_health
        ELSE [status |-> basic_health.status,
              active_sessions |-> basic_health.active_sessions,
              phoenix_connection |-> IF conn_ok THEN "verified"
                                     ELSE "degraded",
              collector_reachable |-> conn_ok]

\* _sanitize_health_response
_sanitize_health_response(status, is_authenticated) ==
    IF is_authenticated THEN status ELSE [status |-> status.status]

\* phoenix_health_check at time t: the cached status if there is one, else
\* the extended check for a request with a token and the basic one without,
\* saved in the cache; then the response, sanitized for the caller
phoenix_health_check(cache, t, is_authenticated, enabled, tracker, conn_ok) ==
    LET cached_status == get(cache, "phoenix", t)
        status == IF cached_status.value # None THEN cached_status.value[1]
                  ELSE IF is_authenticated
                  THEN health_check_extended(enabled, tracker, conn_ok)
                  ELSE health_check(enabled, tracker)
    IN  [cache |-> IF cached_status.value # None THEN cached_status.cache
                   ELSE set(cached_status.cache, "phoenix", status, t),
         response |->
            [success |-> status.status \in {"healthy", "disabled"},
             status |-> _sanitize_health_response(status, is_authenticated)]]

\* requests to the endpoint: with or without a valid token, at once or after
\* the cached status has expired
HealthRequests ==
    {[is_authenticated |-> a, wait |-> w] :
        a \in BOOLEAN, w \in {0, ttl_seconds + 1}}

\* the requests served one after the other, the first at time 0
RECURSIVE RunHealth(_, _, _, _, _, _, _)
RunHealth(cache, t, reqs, enabled, tracker, conn_ok, done) ==
    IF reqs = <<>> THEN done
    ELSE LET at == t + Head(reqs).wait
             res == phoenix_health_check(cache, at,
                        Head(reqs).is_authenticated, enabled, tracker,
                        conn_ok)
         IN  RunHealth(res.cache, at, Tail(reqs), enabled, tracker, conn_ok,
                       Append(done, [request |-> Head(reqs), time |-> at,
                                     response |-> res.response]))

RECURSIVE RequestSequences(_)
RequestSequences(n) ==
    IF n = 0 THEN {<<>>}
    ELSE RequestSequences(n - 1)
         \cup {Append(reqs, r) : reqs \in RequestSequences(n - 1),
                                 r \in HealthRequests}

\* a caller sends a sequence of requests to the endpoint
UnitHealth(reqs, tracker, conn_ok) ==
    /\ last_call = None
    /\ last_call' = UnitCall("phoenix_health_check",
           [requests |-> reqs, tracker |-> tracker, conn_ok |-> conn_ok,
            enabled |-> phoenix_enabled],
           RunHealth(EmptyCache, 0, reqs, phoenix_enabled, tracker, conn_ok,
                     <<>>))
    /\ UNCHANGED <<now, issued, phoenix_enabled, session_tracker, jobVars,
                   answerVars>>

Init ==
    /\ now = 0
    /\ issued = {}
    /\ phoenix_enabled \in BOOLEAN
    /\ session_tracker = EmptyDict
    /\ background_jobs = EmptyDict
    /\ responses = <<>>
    /\ bg = EmptyDict
    /\ eval_enabled = phoenix_enabled
    /\ reranker = "off"
    /\ llm_provider = "openai"
    /\ evaluation_queue = <<>>
    /\ worker = [pc |-> IF phoenix_enabled THEN "idle" ELSE "absent",
                 task |-> None]
    /\ ask = [r \in Calls |-> IdleCall]
    /\ put_log = <<>>
    /\ eval_log = <<>>
    /\ evaluations = <<>>
    /\ last_call = None

Next ==
    \/ \E op \in Operations, user \in Users : Submit(op, user)
    \/ \E j \in UUIDs : BgStart(j)
    \/ \E j \in UUIDs : BgWork(j)
    \/ \E j \in UUIDs : BgSuccess(j)
    \/ \E j \in UUIDs : BgExcept(j)
    \/ \E j \in UUIDs : BgFinally(j)

Spec == Init /\ [][Next]_vars

\* the task a call made before the ones followed here may have left on the
\* queue: that call was passed a session id that names no live session,
\* found one document and got its answer
EarlierTask ==
    LET documents == search_documents(<<Some("art")>>) IN
    EvalTask(Min(1, MaxUuid), <<113, 49>>, _build_context(documents), "a1",
             documents)

\* the services as constructed at import: api_phoenix_enabled decides whether
\* monitoring and evaluation are on and whether the worker thread is started;
\* _initialize_phoenix and _initialize_evaluators can each turn their own
\* service off.  The worker may still have the task of an earlier call
\* before it.
InitAnswer ==
    /\ now = 0
    /\ session_tracker = EmptyDict
    /\ background_jobs = EmptyDict
    /\ responses = <<>>
    /\ bg = EmptyDict
    /\ \E setting \in BOOLEAN, phoenix_ok \in BOOLEAN, evaluators_ok \in BOOLEAN :
        /\ phoenix_enabled = (setting /\ phoenix_ok)
        /\ eval_enabled = (setting /\ evaluators_ok)
        /\ worker = [pc |-> IF setting THEN "idle" ELSE "absent",
                     task |-> None]
    /\ reranker \in {"off", "on", "unloaded"}
    /\ llm_provider \in Providers
    /\ \E earlier \in BOOLEAN :
        /\ earlier => eval_enabled
        /\ issued = IF earlier THEN {EarlierTask.session_id} ELSE {}
        /\ evaluation_queue = IF earlier THEN <<Some(EarlierTask)>> ELSE <<>>
        /\ put_log = IF earlier THEN <<EarlierTask>> ELSE <<>>
    /\ ask = [r \in Calls |-> IdleCall]
    /\ eval_log = <<>>
    /\ evaluations = <<>>
    /\ last_call = None

NextAnswer ==
    \/ HandlerCreateSession
    \/ \E r \in Calls, q \in Questions,
          session_id \in {None} \cup {Some(sid) : sid \in UUIDs} :
           AskStart(r, q, session_id)
    \/ \E r \in Calls : AskEmbed(r)
    \/ \E r \in Calls : AskSearch(r)
    \/ \E r \in Calls : AskRerank(r)
    \/ \E r \in Calls : LlmAttempt(r)
    \/ \E r \in Calls : AskEnqueue(r)
    \/ \E r \in Calls : AskRespond(r)
    \/ WorkerGet
    \/ WorkerClean

SpecAnswer == InitAnswer /\ [][NextAnswer]_vars

\* the services with monitoring and evaluation on and the worker started
InitAnswerLive ==
    /\ InitAnswer
    /\ phoenix_enabled
    /\ eval_enabled

\* every awaited LLM attempt ends and the event loop resumes the call; the
\* worker thread is promised nothing: it may never take a task, or never
\* finish the one it is running
SpecAnswerLive ==
    /\ InitAnswerLive
    /\ [][NextAnswer]_vars
    /\ \A r \in Calls :
        /\ WF_vars(AskEmbed(r))
        /\ WF_vars(AskSearch(r))
        /\ WF_vars(AskRerank(r))
        /\ WF_vars(LlmAttempt(r))
        /\ WF_vars(AskEnqueue(r))
        /\ WF_vars(AskRespond(r))

\* the session tracker and the question endpoint, driven from outside
InitApi == Init

NextApi ==
    \/ \E user_id \in ApiUsers : ApiCreateSession(user_id)
    \/ \E sid \in UUIDs : ApiEndSession(sid)
    \/ \E kind \in TrackKinds, sid \in UUIDs, sink_ok \in BOOLEAN :
       \E metadata \in ApiMetadatas(kind) :
           ApiTrack(kind, sid, sink_ok, metadata)
    \/ \E q \in Questions : ask_question(q)

SpecApi == InitApi /\ [][NextApi]_vars

\* single functions of the pipeline, called from outside on chosen inputs
InitUnits == Init

\* one call of each function, on any of its inputs
GenerateCall ==
    /\ last_call = None
    /\ \E tracker \in UnitTrackers, sink_ok \in BOOLEAN, q \in Questions,
          provider \in Providers, articulos \in SearchOutcomes(MaxDocs),
          script \in ProviderScripts :
           UnitGenerate(tracker, sink_ok, q, articulos, provider, script)

RetrieveCall ==
    /\ last_call = None
    /\ \E tracker \in UnitTrackers, q \in Questions, top_k \in TopKs,
          rr \in {"off", "on", "unloaded"},
          embed_exc \in {None} \cup {Some(m) : m \in Messages},
          search_exc \in {None} \cup {Some(m) : m \in Messages} :
        \E articulos \in Candidates(IF rr # "off" THEN top_k * 2 ELSE top_k) :
          \E scores \in PredictOutcomes(Len(articulos), rr),
             times \in StageTimes, span_ok \in SpanOutcomes :
           UnitRetrieve(tracker, q, top_k, rr, articulos, scores, embed_exc,
                        search_exc, times, span_ok)

RelevanceCall ==
    /\ last_call = None
    /\ \E outcome \in RelevanceOutcomes : UnitRelevance(outcome)

RunEvaluationCall ==
    /\ last_call = None
    /\ \E tracker \in UnitTrackers, sink_ok \in BOOLEAN,
          q \in Questions \cup {LongQuestion}, rel \in RelevanceOutcomes, hal \in HallucinationOutcomes,
          tox \in ToxicityOutcomes :
           UnitRunEvaluation(tracker, sink_ok, q, rel, hal, tox)

OverallQualityCall ==
    /\ last_call = None
    /\ \E relevance \in SubScores, hallucination \in SubScores,
          toxicity \in SubScores :
           UnitOverallQuality(relevance, hallucination, toxicity)

SpanCall ==
    /\ last_call = None
    /\ \E kind \in TrackKinds, tracker \in SpanTrackers,
          metadata \in Metadatas :
           UnitSpan(kind, tracker, metadata)

NextUnits ==
    \/ GenerateCall
    \/ SpanCall
    \/ RetrieveCall
    \/ RelevanceCall
    \/ RunEvaluationCall
    \/ OverallQualityCall

SpecUnits == InitUnits /\ [][NextUnits]_vars

\* the evaluation worker with its queue, tasks handed over from outside; the
\* worker thread was started (api_phoenix_enabled is set)
InitWorker ==
    /\ InitAnswer
    /\ evaluation_queue = <<>>
    /\ worker.pc = "idle"
    /\ reranker = "off"
    /\ llm_provider = "openai"

NextWorker ==
    \/ HandlerCreateSession
    \/ \E sid \in UUIDs, q \in Questions, articulos \in SearchOutcomes(MaxDocs) :
           EnqueueEvaluation(sid, q, articulos)
    \/ shutdown
    \/ shutdownReturn
    \/ WorkerGet
    \/ WorkerStep

SpecWorker == InitWorker /\ [][NextWorker]_vars

\* the worker thread keeps being scheduled, queue.get returns when the queue
\* has an item, and the checks of a task end
SpecWorkerLive ==
    /\ InitWorker
    /\ [][NextWorker]_vars
    /\ WF_vars(WorkerGet)
    /\ WF_vars(WorkerStep)

\* ------------------------------------------------------------------ claims
Jobs == DOMAIN background_jobs
ForwardSteps == {<<"queued", "processing">>, <<"processing", "completed">>,
                 <<"processing", "failed">>}

\* C1: a job record is never removed and its status only ever changes
\* queued -> processing, processing -> completed or processing -> failed
C1_StatusOnlyMovesForward ==
    [][\A j \in Jobs :
          /\ j \in DOMAIN background_jobs'
          /\ background_jobs'[j].status # background_jobs[j].status =>
                <<background_jobs[j].status, background_jobs'[j].status>>
                    \in ForwardSteps]_vars

C1_Witness ==
    \E j \in Jobs : background_jobs[j].status = "failed"
                      /\ background_jobs[j].started_at # None

\* C2: once the background unit of a job has returned, the job is listed
\* either completed with a result and no error, or failed with an error and
\* no result
C2_TerminalAfterReturn ==
    \A j \in DOMAIN bg :
        bg[j].pc = "done" =>
            LET v == list_all_jobs(background_jobs)[j] IN
                \/ v.status = "completed" /\ v.result # None /\ v.error = None
                \/ v.status = "failed" /\ v.error # None /\ v.result = None

C2_Witness ==
    \E j \in DOMAIN bg :
        /\ bg[j].pc = "done"
        /\ list_all_jobs(background_jobs)[j].status = "completed"
        /\ list_all_jobs(background_jobs)[j].result # None

\* C3: submit stores a record that is queued, has a creation timestamp and
\* no start or completion timestamp, schedules the unit and returns the id;
\* until the unit takes its first step the job is listed as queued
C3_SubmitYieldsQueued ==
    [][\A j \in DOMAIN background_jobs' :
          /\ j \notin Jobs =>
                /\ background_jobs'[j].job_id = j
                /\ background_jobs'[j].created_at = Some(now')
                /\ background_jobs'[j].started_at = None
                /\ background_jobs'[j].completed_at = None
                /\ j \in DOMAIN bg' /\ bg'[j].pc = "scheduled"
                /\ responses' = Append(responses,
                       [job_id |-> j,
                        operation |-> background_jobs'[j].operation])
          /\ (j \in DOMAIN bg' /\ bg'[j].pc = "scheduled") =>
                list_all_jobs(background_jobs')[j].status = "queued"]_vars

C3_Witness ==
    \E j \in DOMAIN bg :
        /\ bg[j].pc = "scheduled"
        /\ background_jobs[j].status = "queued"
        /\ \E i \in 1..Len(responses) : responses[i].job_id = j

\* C4: an exception raised by any step of the background work ends in the
\* record: failed, error = the exception's message, a completion timestamp,
\* and nothing leaves the background unit
C4_ExceptionCaptured ==
    \A j \in DOMAIN bg :
        /\ ~bg[j].escaped
        /\ (bg[j].pc \in {"finally", "done"} /\ bg[j].exc # None) =>
              /\ background_jobs[j].status = "failed"
              /\ background_jobs[j].error = bg[j].exc
              /\ background_jobs[j].completed_at # None

C4_Witness ==
    \E j \in DOMAIN bg :
        /\ bg[j].pc = "done"
        /\ bg[j].exc = Some(NoArticlesMessage)
        /\ background_jobs[j].error = Some(NoArticlesMessage)

\* C5: whenever the background unit has returned, the session it created,
\* whose id is stored on the job, is not in the live-session table
C5_SessionEnded ==
    \A j \in DOMAIN bg :
        bg[j].pc = "done" =>
            /\ background_jobs[j].session_id # None
            /\ background_jobs[j].session_id[1] \notin DOMAIN session_tracker

C5_Witness ==
    \E j \in DOMAIN bg :
        /\ bg[j].pc = "done"
        /\ background_jobs[j].status \in {"completed", "failed"}
        /\ background_jobs[j].session_id # None
        /\ background_jobs[j].session_id[1] \in issued
        /\ background_jobs[j].session_id[1] \notin DOMAIN session_tracker

\* C6: the submit calls made so far have returned pairwise distinct job ids
\* and the job table holds exactly one record for each of them, the one that
\* call stored
C6_DistinctIdsNoLostRecords ==
    /\ Cardinality(Jobs) = Len(responses)
    /\ \A i, k \in 1..Len(responses) :
          i # k => responses[i].job_id # responses[k].job_id
    /\ \A i \in 1..Len(responses) :
          /\ responses[i].job_id \in Jobs
          /\ background_jobs[responses[i].job_id].job_id = responses[i].job_id
          /\ background_jobs[responses[i].job_id].operation =
                 responses[i].operation

C6_Witness ==
    /\ Len(responses) = MaxSubmit
    /\ Cardinality(Jobs) = MaxSubmit
    /\ \E j \in DOMAIN bg : bg[j].pc \in {"work", "success", "except"}

\* ------------------------------------------------ claims on answer_question
\* the tasks put on the evaluation queue for a session
Puts(sid) == {i \in 1..Len(put_log) : put_log[i].session_id = sid}

\* the evaluations the worker ran for a session
Evals(sid) == {i \in 1..Len(eval_log) : eval_log[i].session_id = sid}

\* the exceptions retrieval and generation raise
RetrievalOrGeneration == {Some(m) : m \in Messages \cup {RetryErrorMessage}}

\* C7: answer never raises: every call that has finished has returned a
\* result, and a call in which retrieval or generation (or anything else in
\* the try block) raised has returned a result with success = FALSE, the
\* message of the exception as error, the question, the elapsed processing
\* time, the session id, and no answer.
C7_FailureResult ==
    \A r \in Calls :
        ask[r].pc = "returned" =>
            /\ ask[r].result # None
            /\ ask[r].exc # None =>
                /\ ask[r].result[1].success = FALSE
                /\ ask[r].result[1].error = ask[r].exc
                /\ ask[r].result[1].question = ask[r].question
                /\ ask[r].result[1].processing_time_seconds \in 0..MaxClock
                /\ ask[r].result[1].session_id = ask[r].session_id[1]
                /\ ask[r].result[1].answer = None

\* a call whose generation failed at every attempt has returned its failure
\* result, with the time that passed since it started
C7_Witness ==
    \E r \in Calls :
        /\ ask[r].pc = "returned"
        /\ ask[r].exc = Some(RetryErrorMessage)
        /\ ask[r].result[1].success = FALSE
        /\ ask[r].result[1].processing_time_seconds > 0

\* C8: a call made without a session id creates a session, and when
\* retrieval or generation then fails, that session is no longer in the
\* live-session table once the call has returned its failure result.
C8_OwnSessionEndedOnFailure ==
    \A r \in Calls :
        (/\ ask[r].pc = "returned"
         /\ ask[r].own_session
         /\ ask[r].exc \in RetrievalOrGeneration)
        => ask[r].session_id[1] \notin DOMAIN session_tracker

\* C9: every call puts at most one evaluation task on the queue, and none
\* when it fails; every task put on the queue is evaluated by the worker at
\* most once.
C9_AtMostOneTaskNoneOnFailure ==
    \A r \in Calls :
        ask[r].pc # "idle" =>
            /\ Cardinality(Puts(ask[r].session_id[1])) <= 1
            /\ (ask[r].pc = "returned" /\ ~ask[r].result[1].success)
                   => Puts(ask[r].session_id[1]) = {}
            /\ Cardinality(Evals(ask[r].session_id[1]))
                   <= Cardinality(Puts(ask[r].session_id[1]))

\* C10: a call whose retrieval returned exactly one document and whose
\* generation succeeded returns success = TRUE, documents_retrieved = 1 and
\* the generated answer unchanged, and exactly one evaluation task with the
\* same question and the same answer has been put on the queue.
C10_OneDocumentScenario ==
    \A r \in Calls :
        (/\ ask[r].pc = "returned"
         /\ Len(ask[r].documents) = 1
         /\ ask[r].answer # None)
        => /\ ask[r].result[1].success
           /\ ask[r].result[1].documents_retrieved = Some(1)
           /\ ask[r].result[1].answer = ask[r].answer
           /\ Cardinality({i \in Puts(ask[r].session_id[1]) :
                  /\ put_log[i].question = ask[r].question
                  /\ put_log[i].answer = ask[r].answer[1]}) = 1

\* C11: the enqueue step never fails the request: a call whose retrieval and
\* generation succeeded gets past the enqueue step with no exception,
\* whether evaluation is disabled or enabled and whatever the queue holds,
\* and returns success = TRUE with the generated answer.  The return is
\* stated for calls whose documents all have a text, so that nothing but the
\* enqueue step can fail after generation.
C11_EnqueueNeverFailsRequest ==
    \A r \in Calls :
        /\ (/\ ask[r].pc = "returned"
            /\ ask[r].answer # None
            /\ \A i \in 1..Len(ask[r].documents) :
                   ~PreviewRaises(ask[r].documents[i]))
           => /\ ask[r].result[1].success
              /\ ask[r].result[1].answer = ask[r].answer
        /\ (/\ ask[r].pc = "returned"
            /\ ask[r].answer # None
            /\ ask[r].exc # None)
           => ask[r].exc = Some(TypeErrorMessage)

\* with evaluation enabled, a call has returned success = TRUE with the
\* generated answer, its task having been put after the task of an earlier
\* call
C11_Witness ==
    \E r \in Calls :
        /\ eval_enabled
        /\ ask[r].pc = "returned"
        /\ ask[r].result[1].success
        /\ ask[r].result[1].answer = ask[r].answer
        /\ Cardinality(Puts(ask[r].session_id[1])) = 1
        /\ Len(put_log) = 2

\* C12: answer returns without waiting for the evaluation worker: a call
\* that is under way returns in every execution in which its LLM attempts
\* end, also when the worker never takes the task from the queue or never
\* finishes an earlier one.
C12_AnswerReturns ==
    \A r \in Calls :
        (ask[r].pc \in {"embedding", "search", "reranking", "llm", "answered",
                        "enqueued"})
            ~> (ask[r].pc = "returned")

\* a call has returned its success result while its task is still on the
\* queue and the worker is busy with the task of an earlier call
C12_Witness ==
    \E r \in Calls :
        /\ ask[r].pc = "returned"
        /\ ask[r].result[1].success
        /\ worker.pc = "running"
        /\ worker.task[1].session_id # ask[r].session_id[1]
        /\ \E i \in 1..Len(evaluation_queue) :
              evaluation_queue[i] # None
              /\ evaluation_queue[i][1].session_id = ask[r].session_id[1]

\* C13: for every result the pipeline's answer_question produces, the
\* POST /api/rag/ask handler returns a 200 response whose success field is
\* the result's, and the session the handler created has been ended when
\* the handler finishes.
C13_EndpointReturnsResult ==
    (last_call # None /\ last_call[1].op = "ask_question") =>
        /\ last_call[1].response[1].status_code = 200
        /\ last_call[1].response[1].success
               = Some(last_call[1].produced[1].success)
        /\ last_call[1].sid[1] \notin DOMAIN session_tracker

\* --------------------------------------------------- claims on the functions
\* the latest call, when it is a call of op
Called(op) == last_call # None /\ last_call[1].op = op

\* C14: for every query, generate called with an empty document list
\* returns the fixed fallback message, makes no call to the LLM provider and
\* records no LLM call on the session.
C14_FallbackWithoutProvider ==
    (Called("_generate_response") /\ last_call[1].args.documents = <<>>) =>
        /\ last_call[1].returned.response = Some(FallbackAnswer)
        /\ last_call[1].returned.exc = None
        /\ last_call[1].returned.calls = 0
        /\ last_call[1].returned.tracker = last_call[1].args.tracker

\* generate was called with no documents, for a live session and monitoring
\* on, with a provider that would have answered
C14_Witness ==
    /\ Called("_generate_response")
    /\ last_call[1].args.documents = <<>>
    /\ last_call[1].args.script[1].ok
    /\ 1 \in DOMAIN last_call[1].args.tracker
    /\ phoenix_enabled

\* the attempts of a script up to and including the first one that answers
FirstAnswer(script) ==
    {k \in DOMAIN script :
        script[k].ok /\ \A j \in 1..(k - 1) : ~script[j].ok}

\* two scripts that fail and answer at the same attempts with the same texts
SameUpToExceptionClass(s1, s2) ==
    \A k \in DOMAIN s1 : s1[k].ok = s2[k].ok /\ s1[k].text = s2[k].text

\* C15: for every provider and every sequence of provider failures, one
\* generate call makes at most 3 provider calls; it raises after exactly 3
\* when all of them fail; when attempt k <= 3 succeeds it returns that
\* attempt's text and makes no further attempt; every exception class is
\* retried in the same way.
C15_AtMostThreeAttempts ==
    (Called("_generate_response") /\ last_call[1].args.documents # <<>>) =>
        LET script == last_call[1].args.script
            returned == last_call[1].returned
        IN  /\ returned.calls \in 1..3
            /\ (\A k \in 1..3 : ~script[k].ok) =>
                   returned.calls = 3 /\ returned.exc # None
                   /\ returned.response = None
            /\ \A k \in FirstAnswer(script) : k <= 3 =>
                   /\ returned.calls = k
                   /\ returned.exc = None
                   /\ returned.response = Some(script[k].text)
            /\ \A other \in ProviderScripts :
                   SameUpToExceptionClass(script, other) =>
                       LET again == _generate_response(
                               last_call[1].args.tracker, phoenix_enabled,
                               last_call[1].args.sink_ok, 1,
                               last_call[1].args.query,
                               last_call[1].args.documents,
                               last_call[1].args.provider, other)
                       IN  /\ again.calls = returned.calls
                           /\ again.response = returned.response
                           /\ (again.exc = None) = (returned.exc = None)

\* generate was called with a document and a provider that failed twice,
\* with different exception classes, and answered on the third attempt
C15_Witness ==
    /\ Called("_generate_response")
    /\ last_call[1].args.documents # <<>>
    /\ ~last_call[1].args.script[1].ok
    /\ ~last_call[1].args.script[2].ok
    /\ last_call[1].args.script[1].exc # last_call[1].args.script[2].exc
    /\ last_call[1].args.script[3].ok
    /\ last_call[1].returned.calls = 3
    /\ last_call[1].returned.response = Some(last_call[1].args.script[3].text)

\* the retrieval whose call is recorded ran the reranker and predict returned
RerankerSucceeded ==
    /\ Called("_retrieve_documents")
    /\ last_call[1].returned.exc = None
    /\ last_call[1].args.use_reranking = "on"
    /\ last_call[1].args.found # <<>>
    /\ last_call[1].args.scores # None

\* C16: for every candidate list of length N, when reranking is enabled and
\* the reranker succeeds, the returned list has at most min(N, top_k)
\* documents, is sorted by rerank score in descending order, holds only
\* documents of the candidate list, and reranking_applied is true.
C16_RerankedOutput ==
    RerankerSucceeded =>
        LET found == last_call[1].args.found
            scores == last_call[1].args.scores[1]
            docs == last_call[1].returned.documents
        IN  /\ Len(docs) <= Min(Len(found), last_call[1].args.top_k)
            /\ \A i, j \in DOMAIN docs :
                   i < j => docs[i].rerank_score[1] >= docs[j].rerank_score[1]
            /\ \A i \in DOMAIN docs : \E k \in DOMAIN found :
                   docs[i] = [found[k] EXCEPT !.rerank_score = Some(scores[k])]
            /\ \A i, j \in DOMAIN docs : i # j => docs[i].id # docs[j].id
            /\ last_call[1].returned.reranking_applied

\* three candidates were reranked with top_k 2; the one found last got the
\* best score and came out first
C16_Witness ==
    /\ RerankerSucceeded
    /\ Len(last_call[1].args.found) = 3
    /\ last_call[1].args.top_k = 2
    /\ Len(last_call[1].returned.documents) = 2
    /\ last_call[1].returned.documents[1].id = 3
    /\ last_call[1].returned.documents[1].rerank_score
           # last_call[1].returned.documents[2].rerank_score

\* the retrieval whose call is recorded ran the reranker and predict raised
RerankerRaised ==
    /\ Called("_retrieve_documents")
    /\ last_call[1].args.embed_exc = None
    /\ last_call[1].args.search_exc = None
    /\ last_call[1].args.use_reranking = "on"
    /\ last_call[1].args.found # <<>>
    /\ last_call[1].args.scores = None

\* C17: if the reranker raises, retrieve does not raise: it returns the
\* vector-search candidates in their original order, with reranking_applied
\* false and the error recorded in the metadata.
C17_RerankerFailureKeepsOrder ==
    RerankerRaised =>
        /\ last_call[1].returned.exc = None
        /\ last_call[1].returned.documents = last_call[1].args.found
        /\ ~last_call[1].returned.reranking_applied
        /\ last_call[1].returned.error # None

\* the reranker raised on three candidates with top_k 2
C17_Witness ==
    /\ RerankerRaised
    /\ Len(last_call[1].args.found) = 3
    /\ last_call[1].args.top_k = 2
    /\ Len(last_call[1].returned.documents) = 3

\* the step is a call of end_session on sid
EndSessionStep(sid) ==
    /\ last_call' # None
    /\ last_call'[1].op = "end_session"
    /\ last_call'[1].sid = Some(sid)

\* C18: end_session is idempotent in its effect: a call of end_session on an
\* id that end_session has already removed returns an empty summary, does not
\* raise, and leaves the live-session table unchanged.
C18_EndSessionTwice ==
    [][\A sid \in UUIDs :
         (EndSessionStep(sid) /\ sid \in issued
              /\ sid \notin DOMAIN session_tracker) =>
            /\ last_call'[1].summary = None
            /\ ~last_call'[1].raised
            /\ session_tracker' = session_tracker]_vars

\* end_session was called on a session that had been created and ended,
\* while another session was live
C18_Witness ==
    /\ last_call # None
    /\ last_call[1].op = "end_session"
    /\ last_call[1].summary = None
    /\ last_call[1].sid[1] \in issued
    /\ DOMAIN session_tracker # {}

\* C19: end_session on an unknown id returns an empty summary and changes
\* nothing; on a live id it returns a summary whose total_actions and
\* llm_calls_count are the lengths of the session's actions and llm_calls
\* lists, and removes exactly that session from the live table, every other
\* session unchanged.
C19_EndSession ==
    [][\A sid \in UUIDs : EndSessionStep(sid) =>
         IF sid \notin DOMAIN session_tracker
         THEN /\ last_call'[1].summary = None
              /\ session_tracker' = session_tracker
         ELSE /\ last_call'[1].summary # None
              /\ last_call'[1].summary[1].final_metrics.total_actions
                     = Len(session_tracker[sid].actions)
              /\ last_call'[1].summary[1].final_metrics.llm_calls_count
                     = Len(session_tracker[sid].llm_calls)
              /\ DOMAIN session_tracker' = DOMAIN session_tracker \ {sid}
              /\ \A other \in DOMAIN session_tracker' :
                     session_tracker'[other] = session_tracker[other]]_vars

\* a session with a recorded LLM call was ended while another session with a
\* recorded action stayed live
C19_Witness ==
    /\ last_call # None
    /\ last_call[1].op = "end_session"
    /\ last_call[1].summary # None
    /\ last_call[1].summary[1].final_metrics.total_actions = 1
    /\ last_call[1].summary[1].final_metrics.llm_calls_count = 1
    /\ \E other \in DOMAIN session_tracker :
           Len(session_tracker[other].actions) = 1

\* the step is a call of the record operation kind on sid
TrackStep(kind, sid) ==
    /\ last_call' # None
    /\ last_call'[1].op = kind
    /\ last_call'[1].sid = Some(sid)

\* the step appended one entry of the kind to the session's actions (and one
\* to its llm_calls for an LLM call) and changed no other session
Appended(kind, sid) ==
    /\ DOMAIN session_tracker' = DOMAIN session_tracker
    /\ \A other \in DOMAIN session_tracker \ {sid} :
           session_tracker'[other] = session_tracker[other]
    /\ Len(session_tracker'[sid].actions)
           = Len(session_tracker[sid].actions) + 1
    /\ SubSeq(session_tracker'[sid].actions, 1,
              Len(session_tracker[sid].actions))
           = session_tracker[sid].actions
    /\ session_tracker'[sid].actions[Len(session_tracker'[sid].actions)].type
           = kind
    /\ Len(session_tracker'[sid].llm_calls)
           = Len(session_tracker[sid].llm_calls)
               + (IF kind = "llm_call" THEN 1 ELSE 0)

\* C20 as stated: every record operation appends its entry to the session's
\* lists when the session id is in the live table, changes nothing when it
\* is not, and in neither case raises into its caller.
C20_RecordAppendsWhenLive ==
    [][\A kind \in TrackKinds, sid \in UUIDs : TrackStep(kind, sid) =>
         /\ ~last_call'[1].raised
         /\ IF sid \in DOMAIN session_tracker
            THEN Appended(kind, sid)
            ELSE session_tracker' = session_tracker]_vars

\* the attributes of the span could be built: track_vectorstore_operation
\* serializes its metadata and the session's attributes before it asks for
\* the span, and json.dumps raises for a value it cannot encode; the other
\* operations serialize nothing
Serialized(kind, tracker, sid, metadata) ==
    kind = "vectorstore_operation" =>
        /\ _serialize_metadata(OrEmptyDict(metadata)).exc = None
        /\ _serialize_metadata(_get_session_attributes(tracker, sid)).exc
               = None

\* C20, amended: every record operation appends its entry to the session's
\* lists when the session id is in the live table, monitoring is enabled,
\* the attributes of the span could be built (track_vectorstore_operation
\* serializes its metadata and the session's attributes first) and the
\* tracer opens the span; in every other case it changes nothing; in no
\* case does it raise into its caller.
C20_RecordAppendsWhenLiveAndEnabled ==
    [][\A kind \in TrackKinds, sid \in UUIDs : TrackStep(kind, sid) =>
         /\ ~last_call'[1].raised
         /\ IF /\ sid \in DOMAIN session_tracker
               /\ phoenix_enabled
               /\ Serialized(kind, session_tracker, sid,
                             last_call'[1].metadata)
               /\ last_call'[1].span_opened = Some(TRUE)
            THEN Appended(kind, sid)
            ELSE session_tracker' = session_tracker]_vars

\* monitoring enabled, a live session holding the entry of one
\* track_vectorstore_operation, and a second track_vectorstore_operation
\* on it, the tracer accepting the span, whose metadata json.dumps could not
\* encode: the list still holds the one entry
C20_Witness ==
    /\ last_call # None
    /\ last_call[1].op = "vectorstore_operation"
    /\ last_call[1].span_opened = Some(TRUE)
    /\ last_call[1].metadata = Some([entry |-> TupleKeyed])
    /\ phoenix_enabled
    /\ last_call[1].sid[1] \in DOMAIN session_tracker
    /\ Len(session_tracker[last_call[1].sid[1]].actions) = 1
    /\ session_tracker[last_call[1].sid[1]].actions[1].type
           = "vectorstore_operation"

\* list later starts with list earlier
Extends(later, earlier) ==
    /\ Len(later) >= Len(earlier)
    /\ SubSeq(later, 1, Len(earlier)) = earlier

\* C21: while a session is in the live table its actions and llm_calls lists
\* are append-only: across every step that keeps the session live, each list
\* is an extension of what it was (nothing removed, reordered or rewritten),
\* hence of what it was at any earlier point of the session's lifetime.
C21_ListsAppendOnly ==
    [][\A sid \in DOMAIN session_tracker \cap DOMAIN session_tracker' :
         /\ Extends(session_tracker'[sid].actions,
                    session_tracker[sid].actions)
         /\ Extends(session_tracker'[sid].llm_calls,
                    session_tracker[sid].llm_calls)]_vars

\* a live session holds two actions of different kinds, the second one just
\* recorded
C21_Witness ==
    /\ last_call # None
    /\ last_call[1].op \in TrackKinds
    /\ last_call[1].sid[1] \in DOMAIN session_tracker
    /\ Len(session_tracker[last_call[1].sid[1]].actions) = 2
    /\ session_tracker[last_call[1].sid[1]].actions[1].type
           # session_tracker[last_call[1].sid[1]].actions[2].type
    /\ session_tracker[last_call[1].sid[1]].actions[2].type
           = last_call[1].op

\* C22: create_session never fails and returns an id that is the id of no
\* session created before, live or ended; afterwards the live table holds a
\* record for that id with empty actions and llm_calls, and every other
\* session is unchanged.
C22_CreateSession ==
    [][\A sid \in UUIDs :
         (/\ last_call' # None
          /\ last_call'[1].op = "create_session"
          /\ last_call'[1].sid = Some(sid)) =>
            /\ ~last_call'[1].raised
            /\ sid \notin issued
            /\ sid \notin DOMAIN session_tracker
            /\ DOMAIN session_tracker' = DOMAIN session_tracker \cup {sid}
            /\ session_tracker'[sid].actions = <<>>
            /\ session_tracker'[sid].llm_calls = <<>>
            /\ \A other \in DOMAIN session_tracker :
                   session_tracker'[other] = session_tracker[other]]_vars

\* a session was created while an earlier one was live with a recorded action
C22_Witness ==
    /\ last_call # None
    /\ last_call[1].op = "create_session"
    /\ last_call[1].sid[1] \in DOMAIN session_tracker
    /\ session_tracker[last_call[1].sid[1]].actions = <<>>
    /\ \E other \in DOMAIN session_tracker :
           Len(session_tracker[other].actions) = 1

\* the value of a weighted sub-score that is there, and its weight
Blend(relevance, hallucination, toxicity) ==
    LET parts == {<<relevance, 0, RelevanceWeight>>,
                  <<hallucination, 1, HallucinationWeight>>,
                  <<toxicity, 1, ToxicityWeight>>}
        there == {part \in parts : part[1] # None}
        Value(part) == IF part[2] = 1 THEN FullScore - part[1][1]
                       ELSE part[1][1]
        RECURSIVE Sum(_, _)
        Sum(rest, weighted) ==
            IF rest = {} THEN 0
            ELSE LET part == CHOOSE x \in rest : TRUE
                 IN  (IF weighted THEN part[3] * Value(part) ELSE part[3])
                     + Sum(rest \ {part}, weighted)
    IN  [score |-> Sum(there, TRUE), weight |-> Sum(there, FALSE)]

\* C25: overall_quality is the sum over the available sub-scores of weight x
\* value, with values (relevance, 1 - hallucination, 1 - toxicity) and
\* weights (0.5, 0.4, 0.1), divided by the sum of the weights of the
\* available sub-scores; it is exactly 1.0 for relevance 1.0, hallucination
\* 0.0, toxicity 0.0; a missing sub-score is left out and the other weights
\* renormalized; it is None exactly when all three sub-scores are None.
C25_OverallQuality ==
    Called("_calculate_overall_quality") =>
        LET args == last_call[1].args
            returned == last_call[1].returned
            blend == Blend(args.relevance, args.hallucination, args.toxicity)
        IN  /\ (returned = None)
                   = (args.relevance = None /\ args.hallucination = None
                      /\ args.toxicity = None)
            /\ returned # None =>
                   /\ blend.weight > 0
                   /\ returned[1].num * FullScore * blend.weight
                          = returned[1].den * blend.score
            /\ (args.relevance = Some(FullScore)
                 /\ args.hallucination = Some(0) /\ args.toxicity = Some(0))
                   => returned = Some([num |-> 1, den |-> 1])

\* the blend was computed without a toxicity score, relevance 1.0 and
\* hallucination 0.5: 0.7 / 0.9
C25_Witness ==
    /\ Called("_calculate_overall_quality")
    /\ last_call[1].args.toxicity = None
    /\ last_call[1].args.relevance = Some(FullScore)
    /\ last_call[1].args.hallucination = Some(Indeterminate)
    /\ last_call[1].returned = Some([num |-> 7, den |-> 9])

\* C26: the relevance sub-check returns 1.0 when the classifier's output says
\* relevant, 0.0 when it says irrelevant, and 0.5 when the output is empty or
\* holds neither word.
C26_RelevanceScores ==
    (Called("_evaluate_relevance") /\ ~last_call[1].args.outcome.raised) =>
        LET text == last_call[1].args.outcome.text
            said == IF Truthy(text) THEN Lower(text[1]) ELSE <<>>
            returned == last_call[1].returned
        IN  /\ Contains(said, Irrelevant) => returned = Some(0)
            /\ (Contains(said, Relevant) /\ ~Contains(said, Irrelevant))
                   => returned = Some(FullScore)
            /\ ~Contains(said, Relevant) => returned = Some(Indeterminate)

\* C27: for every task each of the three sub-checks fails on its own: a
\* sub-check that raises yields None for its own metric only, the other two
\* metrics keep the values their sub-checks produced, and the evaluation
\* result is still computed and passed to the monitoring sink.
C27_SubChecksIndependent ==
    Called("_run_evaluation_async") =>
        LET args == last_call[1].args
            returned == last_call[1].returned
        IN  /\ returned.metrics # None
            /\ returned.metrics[1].relevance
                   = _evaluate_relevance(args.relevance)
            /\ returned.metrics[1].hallucination
                   = _evaluate_hallucination(args.hallucination)
            /\ returned.metrics[1].toxicity
                   = _evaluate_toxicity(args.toxicity)
            /\ (returned.metrics[1].relevance = None) = args.relevance.raised
            /\ (returned.metrics[1].hallucination = None)
                   = args.hallucination.raised
            /\ (returned.metrics[1].toxicity = None) = args.toxicity.raised
            /\ (returned.metrics[1].overall_quality = None)
                   = (args.relevance.raised /\ args.hallucination.raised
                      /\ args.toxicity.raised)
            /\ returned.saved # None
            /\ returned.saved[1].relevance_score
                   = PyScore(returned.metrics[1].relevance)
            /\ returned.saved[1].hallucination_score
                   = PyScore(returned.metrics[1].hallucination)
            /\ returned.saved[1].toxicity_score
                   = PyScore(returned.metrics[1].toxicity)
            /\ returned.saved[1].overall_quality_score
                   = PyScore(returned.metrics[1].overall_quality)
            /\ (phoenix_enabled /\ args.sink_ok
                 /\ 1 \in DOMAIN args.tracker) =>
                   /\ Len(returned.tracker[1].actions) = 1
                   /\ returned.tracker[1].actions[1].metadata
                          = returned.saved[1]

\* the hallucination check raised, the other two answered, and the result,
\* with a blend of the two, was recorded on the live session
C27_Witness ==
    /\ Called("_run_evaluation_async")
    /\ last_call[1].args.hallucination.raised
    /\ last_call[1].returned.metrics[1].hallucination = None
    /\ last_call[1].returned.metrics[1].relevance = Some(FullScore)
    /\ last_call[1].returned.metrics[1].toxicity = Some(0)
    /\ last_call[1].returned.metrics[1].overall_quality
           = Some([num |-> 1, den |-> 1])
    /\ 1 \in DOMAIN last_call[1].returned.tracker
    /\ Len(last_call[1].returned.tracker[1].actions) = 1

\* the health-check cache, used from outside
InitCache == Init

CacheCall ==
    /\ last_call = None
    /\ \E ops \in OpSequences(MaxOps) : UnitCache(ops)

HealthCall ==
    /\ last_call = None
    /\ \E reqs \in RequestSequences(MaxOps), tracker \in UnitTrackers,
          conn_ok \in BOOLEAN :
           UnitHealth(reqs, tracker, conn_ok)

NextCache ==
    \/ CacheCall
    \/ HealthCall

SpecCache == InitCache /\ [][NextCache]_vars

\* the worker thread and the handlers' thread on the session table: the two
\* threads take turns at any point between the worker's test and its access
InitThreads == InitWorker

NextThreads ==
    \/ HandlerCreateSession
    \/ \E sid \in UUIDs, q \in Questions, articulos \in SearchOutcomes(MaxDocs) :
           EnqueueEvaluation(sid, q, articulos)
    \/ \E sid \in UUIDs : HandlerEndSession(sid)
    \/ WorkerGet
    \/ WorkerCheckSession
    \/ WorkerAppendAction

SpecThreads == InitThreads /\ [][NextThreads]_vars

\* the tasks whose evaluation has started, in the order they started
Started ==
    eval_log \o (IF worker.pc = "running" THEN <<worker.task[1]>> ELSE <<>>)

\* C23: evaluation tasks are evaluated by one consumer, one at a time, in the
\* order in which they were enqueued: the tasks whose evaluation has started
\* are the first ones enqueued, in that order, and all but the last of them
\* have finished.
C23_OneAtATimeInOrder ==
    /\ Extends(put_log, Started)
    /\ Len(Started) - Len(eval_log) <= 1
    /\ Len(evaluations) = Len(eval_log)

\* two different tasks were enqueued, the first is evaluated and the second
\* is being evaluated
C23_Witness ==
    /\ Len(put_log) = 2
    /\ put_log[1].question # put_log[2].question
    /\ eval_log = <<put_log[1]>>
    /\ worker.pc = "running"
    /\ worker.task = Some(put_log[2])

\* every task of the sequence is in the log
AllIn(tasks, log) ==
    \A i \in 1..Len(tasks) : \E j \in 1..Len(log) : log[j] = tasks[i]

\* C24: after shutdown is called the worker eventually exits, and when it
\* has exited every task that was enqueued before the shutdown has been
\* evaluated.
C24_ShutdownDrains ==
    /\ Called("shutdown") ~> (worker.pc = "exited")
    /\ [](worker.pc = "exited" =>
            /\ Called("shutdown")
            /\ AllIn(last_call[1].args.enqueued, eval_log))

\* the worker has exited after a shutdown that found two tasks enqueued
C24_Witness ==
    /\ worker.pc = "exited"
    /\ Called("shutdown")
    /\ Len(last_call[1].args.enqueued) = 2
    /\ AllIn(last_call[1].args.enqueued, eval_log)

\* the tasks enqueued before the shutdown, all of them while none was called
BeforeShutdown ==
    IF Called("shutdown") THEN last_call[1].args.enqueued ELSE put_log

\* C28: a failure while a task is evaluated or while its result is written
\* does not stop the worker: it is idle again after the failed task, and
\* every task enqueued before shutdown is still evaluated.
C28_FailureDoesNotStopWorker ==
    /\ [](\A i \in 1..Len(evaluations) :
            evaluations[i].ending # "returned"
                => worker.pc \in {"idle", "running", "exited"})
    /\ \A n \in 1..MaxTasks :
          (Len(BeforeShutdown) >= n) ~> (Len(eval_log) >= n)

\* the first task's evaluation raised, the second one's write to the sink
\* failed, and both were evaluated
C28_Witness ==
    /\ Len(evaluations) = 2
    /\ evaluations[1].ending = "raised"
    /\ evaluations[2].ending = "sink failed"
    /\ eval_log = put_log
    /\ worker.pc = "idle"

\* C29: access to the session table is mutually exclusive between the
\* threads: the session the worker found in the table is still there when
\* the worker accesses it, and no entry the worker set out to append is lost.
C29_MutualExclusion ==
    /\ worker.pc = "checked"
          => worker.task[1].session_id \in DOMAIN session_tracker
    /\ \A i \in 1..Len(evaluations) : evaluations[i].ending # "append lost"

\* the entries a call of _retrieve_documents added to session 1
AddedByRetrieve ==
    LET before == last_call[1].args.tracker[1].actions
        after == last_call[1].returned.tracker[1].actions
    IN  SubSeq(after, Len(before) + 1, Len(after))

\* a call of _retrieve_documents for a live session, monitoring enabled
RetrieveOnLiveSession ==
    /\ Called("_retrieve_documents")
    /\ last_call[1].args.enabled
    /\ 1 \in DOMAIN last_call[1].args.tracker

\* the reranking stage of the call was reached
RerankingStarted ==
    /\ last_call[1].args.embed_exc = None
    /\ last_call[1].args.search_exc = None
    /\ last_call[1].args.use_reranking # "off"
    /\ last_call[1].args.found # <<>>

\* C30: every stage of a retrieval that was started has left an entry with
\* its latency on the session, also a stage that raised.  Stated for a
\* retrieval with monitoring enabled, a live session and a tracer that opens
\* every span, so that only the outcome of a stage decides whether it is
\* recorded.
C30_StartedStagesRecorded ==
    (/\ RetrieveOnLiveSession
     /\ last_call[1].args.span_ok.embedding
     /\ last_call[1].args.span_ok.search
     /\ last_call[1].args.span_ok.reranking) =>
        LET args == last_call[1].args IN
        /\ \E i \in 1..Len(AddedByRetrieve) :
              /\ AddedByRetrieve[i].type = "embedding_generation"
              /\ AddedByRetrieve[i].generation_time = args.times.embedding
        /\ args.embed_exc = None =>
              \E i \in 1..Len(AddedByRetrieve) :
                /\ AddedByRetrieve[i].type = "vectorstore_search"
                /\ AddedByRetrieve[i].search_time = args.times.search
        /\ RerankingStarted =>
              \E i \in 1..Len(AddedByRetrieve) :
                /\ AddedByRetrieve[i].type = "reranking"
                /\ AddedByRetrieve[i].reranking_time = args.times.reranking

\* a call of _generate_response with at least one document
GenerateWithDocuments ==
    /\ Called("_generate_response")
    /\ last_call[1].args.documents # <<>>

\* the llm call a successful generation is to record
ExpectedLlmCall ==
    [provider |-> last_call[1].args.provider,
     model |-> api_llm_model,
     prompt |-> _create_prompt(last_call[1].args.query,
                               _build_context(last_call[1].args.documents)),
     response |-> last_call[1].returned.response[1]]

\* the call added exactly the expected llm call to session 1
OneLlmCallRecorded ==
    /\ 1 \in DOMAIN last_call[1].args.tracker
    /\ 1 \in DOMAIN last_call[1].returned.tracker
    /\ last_call[1].returned.tracker[1].llm_calls =
          Append(last_call[1].args.tracker[1].llm_calls, ExpectedLlmCall)

\* C31 as stated: a successful generation with documents records exactly one
\* llm call with provider, model, prompt and response on the session it was
\* given; a generation that ends in an exception records none.
C31_OneLlmCallPerSuccess ==
    GenerateWithDocuments =>
        IF last_call[1].returned.exc = None
        THEN OneLlmCallRecorded
        ELSE last_call[1].returned.tracker = last_call[1].args.tracker

\* C31, amended: the one llm call is recorded when monitoring is enabled,
\* the session is live and the tracer opens the span, and nothing is
\* recorded otherwise; a generation that ends in an exception records none.
C31_OneLlmCallWhenLiveAndEnabled ==
    GenerateWithDocuments =>
        IF /\ last_call[1].returned.exc = None
           /\ phoenix_enabled
           /\ last_call[1].args.sink_ok
           /\ 1 \in DOMAIN last_call[1].args.tracker
        THEN OneLlmCallRecorded
        ELSE last_call[1].returned.tracker = last_call[1].args.tracker

\* the provider answered at its second attempt and the one call is on the
\* live session
C31_Witness ==
    /\ GenerateWithDocuments
    /\ phoenix_enabled
    /\ last_call[1].returned.calls = 2
    /\ last_call[1].returned.exc = None
    /\ OneLlmCallRecorded
    /\ Len(last_call[1].returned.tracker[1].llm_calls) = 1

\* the record of session sid holds the scores of an evaluation
HoldsScores(sid) ==
    \E k \in 1..Len(session_tracker[sid].actions) :
        LET entry == session_tracker[sid].actions[k] IN
        /\ entry.type = "vectorstore_operation"
        /\ entry.operation = "llm_evaluation"
        /\ "overall_quality_score" \in DOMAIN entry.metadata
        /\ entry.metadata.overall_quality_score
               = PyScore(CleanMetrics.overall_quality)

\* C32: once the worker has finished a task, no record of the live-session
\* table holds the task's scores, however the evaluation and the ending of
\* the session interleave.
C32_MetricsNotRetained ==
    \A i \in 1..Len(eval_log) :
        eval_log[i].session_id \in DOMAIN session_tracker
            => ~HoldsScores(eval_log[i].session_id)

\* a value the sink accepts: a primitive or a sequence of primitives
SinkAccepts(value) ==
    \/ IsPrimitive(value)
    \/ /\ value.kind = "list"
       /\ \A i \in 1..Len(value.value) : IsPrimitive(value.value[i])

\* C33: every attribute value a record operation hands to the sink is a
\* primitive or a sequence of primitives; maps, lists with other elements
\* and None have been turned into strings.
C33_PrimitiveAttributes ==
    (/\ Called("start_as_current_span")
     /\ last_call[1].returned.attributes # None) =>
        \A key \in DOMAIN last_call[1].returned.attributes[1] :
            SinkAccepts(last_call[1].returned.attributes[1][key])

\* a sub-score is missing or lies between 0 and 1 (in tenths)
InUnitInterval(score) == score = None \/ score[1] \in 0..FullScore

\* C34: in every evaluation result relevance, hallucination, toxicity,
\* grounding and overall_quality are each None or within [0,1], and grounding
\* is 1 - hallucination, None exactly when hallucination is None.
C34_MetricsInRange ==
    Called("_run_evaluation_async") =>
        LET metrics == last_call[1].returned.metrics[1] IN
        /\ InUnitInterval(metrics.relevance)
        /\ InUnitInterval(metrics.hallucination)
        /\ InUnitInterval(metrics.toxicity)
        /\ InUnitInterval(metrics.grounding)
        /\ metrics.overall_quality # None =>
              /\ metrics.overall_quality[1].den > 0
              /\ metrics.overall_quality[1].num >= 0
              /\ metrics.overall_quality[1].num <= metrics.overall_quality[1].den
        /\ (metrics.grounding = None) = (metrics.hallucination = None)
        /\ metrics.hallucination # None =>
              metrics.grounding[1] + metrics.hallucination[1] = FullScore

\* the relevance check raised and the classifier called the answer
\* hallucinated: grounding is 0 and relevance missing
C34_Witness ==
    /\ Called("_run_evaluation_async")
    /\ last_call[1].args.relevance.raised
    /\ last_call[1].returned.metrics[1].relevance = None
    /\ last_call[1].returned.metrics[1].hallucination = Some(FullScore)
    /\ last_call[1].returned.metrics[1].grounding = Some(0)
    /\ last_call[1].returned.metrics[1].overall_quality # None

\* C35: in every list a poller can get, each job's timestamps agree with its
\* status: queued has neither start nor completion time, processing has a
\* start and no completion time, completed and failed have a completion
\* time, and created_at is always set.
C35_TimestampsAgreeWithStatus ==
    \A j \in DOMAIN background_jobs :
        LET view == list_all_jobs(background_jobs)[j] IN
        /\ view.created_at # None
        /\ view.status = "queued" =>
              view.started_at = None /\ view.completed_at = None
        /\ view.status = "processing" =>
              view.started_at # None /\ view.completed_at = None
        /\ view.status \in {"completed", "failed"} =>
              view.completed_at # None

\* one job is listed as failed, with its start and completion times, while
\* another is still queued
C35_Witness ==
    \E j, k \in DOMAIN background_jobs :
        /\ list_all_jobs(background_jobs)[j].status = "failed"
        /\ list_all_jobs(background_jobs)[j].started_at # None
        /\ list_all_jobs(background_jobs)[j].completed_at # None
        /\ list_all_jobs(background_jobs)[k].status = "queued"
        /\ list_all_jobs(background_jobs)[k].started_at = None

\* the steps of the cache run
CacheTrace == last_call[1].returned

\* step j of the run cleared key: clear(key) or clear() for everything
ClearsKey(j, key) ==
    /\ CacheTrace[j].op.op = "clear"
    /\ CacheTrace[j].op.key \in {None, key}

\* step j is the most recent set of key before step i
LastSetBefore(j, i, key) ==
    /\ j < i
    /\ CacheTrace[j].op.op = "set"
    /\ CacheTrace[j].op.key = key
    /\ \A m \in (j + 1)..(i - 1) :
          ~(CacheTrace[m].op.op = "set" /\ CacheTrace[m].op.key = key)

\* C37: get(key) returns the value of the most recent set(key) when that set
\* is at most ttl_seconds old and no clear of the key followed it; otherwise
\* it returns None, and a get that finds an expired entry removes it.
C37_CacheGet ==
    Called("HealthCheckCache") =>
        \A i \in 1..Len(CacheTrace) :
            CacheTrace[i].op.op = "get" =>
                LET key == CacheTrace[i].op.key
                    fresh == {j \in 1..(i - 1) :
                                /\ LastSetBefore(j, i, key)
                                /\ CacheTrace[i].time - CacheTrace[j].time
                                      <= ttl_seconds
                                /\ \A m \in (j + 1)..(i - 1) :
                                      ~ClearsKey(m, key)}
                IN  /\ \A j \in fresh :
                          CacheTrace[i].returned = Some(CacheTrace[j].op.value)
                    /\ fresh = {} =>
                          /\ CacheTrace[i].returned = None
                          /\ key[1] \notin DOMAIN CacheTrace[i].cache._cache

\* C36: whatever requests came before, a request to the Phoenix health
\* endpoint without a token gets the status field alone, and a request with
\* a valid token gets the status the extended check produces, connection
\* test included.
C36_HealthByAuthentication ==
    Called("phoenix_health_check") =>
        \A i \in 1..Len(last_call[1].returned) :
            LET served == last_call[1].returned[i] IN
            IF served.request.is_authenticated
            THEN served.response.status =
                     health_check_extended(last_call[1].args.enabled,
                                           last_call[1].args.tracker,
                                           last_call[1].args.conn_ok)
            ELSE DOMAIN served.response.status = {"status"}

\* C38: when reranking is enabled and the reranker raises, retrieve returns
\* every candidate the search fetched, up to twice top_k and not cut to
\* top_k, and that many documents are reported as documents_retrieved.
C38_RerankerFailureNotTruncated ==
    RerankerRaised =>
        LET returned == last_call[1].returned
            result == SuccessResult(last_call[1].args.query, "a1", 0,
                                    returned.documents,
                                    returned.reranking_applied, 1)
        IN  /\ Len(returned.documents) = Len(last_call[1].args.found)
            /\ Len(returned.documents) <= 2 * last_call[1].args.top_k
            /\ result.documents_retrieved = Some(Len(last_call[1].args.found))

\* the reranker raised with top_k 1 and two candidates: two documents are
\* returned and reported, more than top_k
C38_Witness ==
    /\ RerankerRaised
    /\ last_call[1].args.top_k = 1
    /\ Len(last_call[1].returned.documents) = 2
    /\ SuccessResult(last_call[1].args.query, "a1", 0,
                     last_call[1].returned.documents,
                     last_call[1].returned.reranking_applied,
                     1).documents_retrieved[1] > last_call[1].args.top_k

\* the tasks enqueued after shutdown was called
LateTasks ==
    IF Called("shutdown")
    THEN SubSeq(put_log, Len(last_call[1].args.enqueued) + 1, Len(put_log))
    ELSE <<>>

\* C39: the worker exits when it dequeues the None of shutdown and does
\* nothing afterwards; a task enqueued after shutdown is accepted (it is put
\* on the queue) and its evaluation is never started.
C39_LateTasksNeverEvaluated ==
    /\ [](\A i \in 1..Len(LateTasks) :
            /\ \A j \in 1..Len(Started) : Started[j] # LateTasks[i]
            /\ \E j \in 1..Len(evaluation_queue) :
                  evaluation_queue[j] = Some(LateTasks[i]))
    /\ [][worker.pc = "exited" =>
            /\ worker'.pc = "exited"
            /\ eval_log' = eval_log
            /\ evaluations' = evaluations]_vars

\* the worker has exited after evaluating the task enqueued before shutdown,
\* and a task enqueued after it is still on the queue
C39_Witness ==
    /\ worker.pc = "exited"
    /\ Len(LateTasks) = 1
    /\ Len(eval_log) = 1
    /\ evaluation_queue = <<Some(LateTasks[1])>>

\* the number of actions of a session that record an LLM call
LlmCallActions(session) ==
    Cardinality({i \in 1..Len(session.actions) :
                    session.actions[i].type = "llm_call"})

\* C40: every live session has at least as many actions as llm_calls, and
\* as many actions of type llm_call as entries in llm_calls.
C40_LlmCallsAmongActions ==
    \A sid \in DOMAIN session_tracker :
        /\ Len(session_tracker[sid].actions)
              >= Len(session_tracker[sid].llm_calls)
        /\ LlmCallActions(session_tracker[sid])
              = Len(session_tracker[sid].llm_calls)

\* a live session holds one LLM call next to an action of another type
C40_Witness ==
    \E sid \in DOMAIN session_tracker :
        /\ Len(session_tracker[sid].llm_calls) = 1
        /\ Len(session_tracker[sid].actions) = 2
        /\ LlmCallActions(session_tracker[sid]) = 1

====

